---- MODULE Spec2Model ----
(***************************************************************************)
(* FundMate: the trade-confirmation (TC) reconciliation engine of          *)
(* src/src/trade_confirmation_processor.py.                                *)
(*                                                                         *)
(* Conventions of the model                                                *)
(*   - a Python str that the code only compares is a TLA+ string; a str    *)
(*     the code transforms (broker names: strip().upper()) is a sequence   *)
(*     of one-character strings;                                           *)
(*   - a stock-code string is a record holding the fields its grammar      *)
(*     carries (fmt names the surface form), so that the regex parsers     *)
(*     become field extractions; two codes are the same Python string      *)
(*     iff the records are equal;                                          *)
(*   - None is <<>> and a present value v is <<v>>;                        *)
(*   - money is counted in whole USD, strikes in thousandths, a date       *)
(*     'YYYY-MM-DD' is <<yyyy, mm, dd>> compared lexicographically.        *)
(***************************************************************************)
EXTENDS Integers, Sequences, FiniteSets, TLC

VARIABLES
    pc,                \* "parse" | "group" | "apply" | "done" | "error" | "prices" |
                       \* "returned" | "saved" | "exit"
    tc_files,          \* TC files in sorted file-name order, each a list of rows
    fi,                \* _parse_trade_confirmations: index of the next file
    all_transactions,  \* _parse_trade_confirmations: rows parsed so far
    transactions,      \* the list handed to _apply_transactions
    results,           \* base_results: the ProcessedResult list, mutated in place
    broker_txns,       \* _apply_transactions: broker key -> list of transactions
    ri,                \* _apply_transactions: index of the result being processed
    ti,                \* _apply_broker_transactions: index of the next transaction
    error,             \* the exception that ended the run ("" while none)
    base,              \* history: results as they were before any transaction
    applied,           \* history: one entry per transaction handed to a result
    unique_symbols,    \* _update_prices: the distinct StockCodes, in dict order
    si,                \* _update_prices: index of the next symbol
    queried,           \* history: the symbols get_stock_price was called for
    price_failures,    \* self.price_failures
    saved,             \* main: what save_processing_results was given (None if not)
    optimized_prices,  \* _optimize_cross_broker_pricing: symbol -> price data
    responses,         \* the external price source: symbol -> what a query gives
    run,               \* _optimize_cross_broker_pricing: 1 in the first call, 2 in the second
    first_run,         \* history: results as the first call left them
    arg,               \* the arguments of a call of a pure function
    ret,               \* what the call returned (None before it)
    tried,             \* history: the parsers ParserRegistry.parse has tried
    hk_code_cache,     \* self._hk_code_cache: 5-digit key -> HKATS letter code
    chain_queries,     \* history: the keys get_option_chain was called for
    rate_cache,        \* ExchangeRateHandler._rate_cache: key -> rate
    cache_file,        \* the JSON cache file: None while it does not exist
    api_calls          \* history: the keys the exchange rate API was asked for

\* the variables of phase 3 and of main
priceVars == <<unique_symbols, si, queried, price_failures, saved>>

\* the variables of cross-broker price optimization
optVars == <<optimized_prices, responses, run, first_run>>

\* the variables of a call of a pure function
callVars == <<arg, ret, tried>>

\* the HKATS resolver's cache and the exchange rate caches
serviceVars == <<hk_code_cache, chain_queries, rate_cache, cache_file, api_calls>>

vars == <<pc, tc_files, fi, all_transactions, transactions, results,
          broker_txns, ri, ti, error, base, applied, unique_symbols, si,
          queried, price_failures, saved, optimized_prices, responses, run,
          first_run, arg, ret, tried, hk_code_cache, chain_queries, rate_cache,
          cache_file, api_calls>>

-----------------------------------------------------------------------------
(* Bounds of the model *)

\* longest transaction list handed to _apply_transactions
MaxTxns == 2
\* largest traded quantity
MaxQty == 2
\* most rows in one TC file
MaxRows == 2

-----------------------------------------------------------------------------
(* Generic helpers *)

None == <<>>
Some(v) == <<v>>

Abs(n) == IF n < 0 THEN -n ELSE n

RECURSIVE SumSeq(_)
SumSeq(s) == IF s = <<>> THEN 0 ELSE Head(s) + SumSeq(Tail(s))

SeqsUpTo(S, n) == UNION {[1..k -> S] : k \in 0..n}

\* list.remove(x): drops the first element equal to x
RemoveFirst(s, x) ==
    LET k == CHOOSE i \in 1..Len(s) :
                 s[i] = x /\ \A j \in 1..(i - 1) : s[j] # x
    IN  SubSeq(s, 1, k - 1) \o SubSeq(s, k + 1, Len(s))

Concat(a, b) == a \o b

RECURSIVE Flatten(_)
Flatten(ss) == IF ss = <<>> THEN <<>> ELSE Head(ss) \o Flatten(Tail(ss))

-----------------------------------------------------------------------------
(* str.strip().upper() on broker names *)

UpperChar(c) ==
    CASE c = "i" -> "I"
      [] c = "b" -> "B"
      [] c = "t" -> "T"
      [] c = "f" -> "F"
      [] c = "h" -> "H"
      [] c = "k" -> "K"
      [] OTHER   -> c

RECURSIVE LStrip(_)
LStrip(s) == IF s # <<>> /\ Head(s) = " " THEN LStrip(Tail(s)) ELSE s

RECURSIVE RStrip(_)
RStrip(s) ==
    IF s # <<>> /\ s[Len(s)] = " " THEN RStrip(SubSeq(s, 1, Len(s) - 1)) ELSE s

Strip(s) == LStrip(RStrip(s))

Upper(s) == [i \in 1..Len(s) |-> UpperChar(s[i])]

BrokerKey(name) == Upper(Strip(name))

-----------------------------------------------------------------------------
(* Stock-code strings                                                      *)
(*   fmt "EQ"     any text without an option pattern, e.g. "AAPL"          *)
(*   fmt "OCC"    TICKER YYMMDD C|P digits      "CLI260629C20000"          *)
(*   fmt "HKATS"  "XXX YYMMDD STRIKE CALL|PUT"  "CLI 260629 20.00 CALL"    *)
(*   fmt "TCLONG" "TICKER MKT MM/DD/YY C|P STRIKE"  "SBET US 01/16/26 P41" *)
(* exp is <<yy, mm, dd>>; k is the number written in the strike field:     *)
(* thousandths for OCC and HKATS, whole units for TCLONG.                  *)

Code(fmt, tk, mkt, exp, cp, k) ==
    [fmt |-> fmt, tk |-> tk, mkt |-> mkt, exp |-> exp, cp |-> cp, k |-> k]

Equity(text) == Code("EQ", text, "", <<0, 0, 0>>, "", 0)

NumericTickers == {"2628", "2318"}
IsAlpha(tk) == tk \notin NumericTickers

\* datetime(year, month, day) raises ValueError for an impossible date
DaysInMonth(y, m) ==
    CASE m \in {4, 6, 9, 11} -> 30
      [] m = 2 -> IF y % 4 = 0 /\ (y % 100 # 0 \/ y % 400 = 0) THEN 29 ELSE 28
      [] OTHER -> 31

ValidDate(y, m, d) == m \in 1..12 /\ d \in 1..DaysInMonth(y, m)

\* number of decimal digits of the strike field written with format 05d
FieldWidth(k) == IF k < 100000 THEN 5 ELSE IF k < 1000000 THEN 6 ELSE 7

Parsed(hk, und, exp, k, typ) ==
    [hkats_code |-> hk, underlying |-> und, expiry_date |-> exp,
     strike |-> k, option_type |-> typ]

\* _parse_occ_format: ^([A-Z]+)(\d{6})([CP])(\d{5})$
ParseOccFormat(code) ==
    IF /\ code.fmt = "OCC"
       /\ IsAlpha(code.tk)
       /\ FieldWidth(code.k) = 5
       /\ ValidDate(2000 + code.exp[1], code.exp[2], code.exp[3])
    THEN Some(Parsed(Some(code.tk), None,
                     <<2000 + code.exp[1], code.exp[2], code.exp[3]>>,
                     code.k,
                     IF code.cp = "C" THEN "CALL" ELSE "PUT"))
    ELSE None

\* parse_hk_option_description, pattern 1: no calendar check on the date
ParseHkOptionDescription(code) ==
    IF code.fmt = "HKATS" /\ IsAlpha(code.tk)
    THEN Some(Parsed(Some(code.tk), None,
                     <<2000 + code.exp[1], code.exp[2], code.exp[3]>>,
                     code.k, code.cp))
    ELSE None

\* parse_us_option_description, pattern 1: ([A-Z]+)\s+(?:US\s+)?MM/DD/YY\s+[CP]STRIKE
\* re.search takes the letters right before the date: the ticker when the
\* market is US, otherwise the market token itself
ParseUsOptionDescription(code) ==
    IF code.fmt = "TCLONG" /\ (code.mkt = "US" => IsAlpha(code.tk))
    THEN Some(Parsed(None,
                     Some(<<"US.", IF code.mkt = "US" THEN code.tk ELSE code.mkt>>),
                     <<(IF code.exp[1] < 50 THEN 2000 ELSE 1900) + code.exp[1],
                       code.exp[2], code.exp[3]>>,
                     code.k * 1000,
                     IF code.cp = "C" THEN "CALL" ELSE "PUT"))
    ELSE None

\* _parse_option_with_existing_logic: OCC first, then HK, then US
ParseOptionWithExistingLogic(code) ==
    IF ParseOccFormat(code) # None THEN ParseOccFormat(code)
    ELSE IF ParseHkOptionDescription(code) # None
         THEN ParseHkOptionDescription(code)
         ELSE ParseUsOptionDescription(code)

\* str.replace('US.', '') on an underlying 'US.' + symbol
StripUsPrefix(underlying) == SelectSeq(underlying, LAMBDA part : part # "US.")

\* _options_match (hkats_code and underlying are None when the key is absent)
OptionsMatch(opt1, opt2) ==
    /\ IF opt1.hkats_code # None /\ opt2.hkats_code # None
       THEN opt1.hkats_code = opt2.hkats_code
       ELSE IF opt1.underlying # None /\ opt2.underlying # None
            THEN StripUsPrefix(opt1.underlying[1]) = StripUsPrefix(opt2.underlying[1])
            ELSE FALSE
    /\ opt1.expiry_date = opt2.expiry_date
    /\ ~(Abs(opt1.strike - opt2.strike) > 10)
    /\ opt1.option_type = opt2.option_type

\* _find_position: index of the position found, 0 for None
FuzzyHit(pos, parsed_tc) ==
    \E code_value \in {Some(pos.StockCode), pos.RawDescription} :
        /\ code_value # None
        /\ ParseOptionWithExistingLogic(code_value[1]) # None
        /\ OptionsMatch(parsed_tc, ParseOptionWithExistingLogic(code_value[1])[1])

\* the first index of a loop over the list that satisfies the test, 0 for none
FirstIndex(hits) ==
    IF hits = {} THEN 0 ELSE CHOOSE i \in hits : \A j \in hits : i <= j

FindPosition(positions, stock_code) ==
    LET parsed_tc == ParseOptionWithExistingLogic(stock_code)
        exact == {i \in 1..Len(positions) : positions[i].StockCode = stock_code}
        fuzzy == {i \in 1..Len(positions) :
                     parsed_tc # None /\ FuzzyHit(positions[i], parsed_tc[1])}
    IN  IF exact # {} THEN FirstIndex(exact) ELSE FirstIndex(fuzzy)

-----------------------------------------------------------------------------
(* Transaction, position dict, ProcessedResult *)

Txn(date, broker, stock_code, direction, quantity, avg_price, amount_usd) ==
    [date |-> date, broker |-> broker, stock_code |-> stock_code,
     direction |-> direction, quantity |-> quantity, avg_price |-> avg_price,
     amount_usd |-> amount_usd, currency |-> "USD", market |-> ""]

PositionDict(stock_code, description, holding, price, currency, multiplier) ==
    [StockCode |-> stock_code, RawDescription |-> description,
     Holding |-> holding, BrokerPrice |-> price,
     PriceCurrency |-> currency, FinalPrice |-> None, FinalPriceSource |-> "",
     OptimizedPriceCurrency |-> "USD", Multiplier |-> multiplier]

ProcessedResult(broker_name, account_id, cash_data, positions, usd_total) ==
    [broker_name |-> broker_name, account_id |-> account_id,
     cash_data |-> cash_data, positions |-> positions, usd_total |-> usd_total]

\* cash_data.get(key, 0) or 0: a missing key and a None value both read as 0
CashGet(cash_data, key) ==
    IF key \in DOMAIN cash_data THEN cash_data[key] ELSE 0

\* mutant of CashSet: the dict is replaced by one holding the key alone
CashSetAlone(cash_data, key, value) ==
    [c \in {key} |-> value]

\* cash_data[key] = value
CashSet(cash_data, key, value) ==
    [c \in DOMAIN cash_data \cup {key} |->
        IF c = key THEN value ELSE cash_data[c]]

\* is_option_contract(stock_code, raw_description) with both set to the TC code
\* (keyword CALL/PUT in the code, or ^[A-Z]{1,4}\d{6}[CP]\d+$; the tickers of
\* the model have at most four letters)
IsOptionContract(code) ==
    code.fmt = "HKATS" \/ (code.fmt = "OCC" /\ IsAlpha(code.tk))

\* get_option_multiplier(stock_code, stock_code, None)
GetOptionMultiplier(code) == IF IsOptionContract(code) THEN 100 ELSE 1

-----------------------------------------------------------------------------
(* The transaction application engine, as functions of one ProcessedResult *)

NewPosition(txn, holding) ==
    PositionDict(txn.stock_code, Some(txn.stock_code), holding, txn.avg_price,
                 txn.currency, GetOptionMultiplier(txn.stock_code))

\* an outcome: the result object as the call leaves it, and the exception
Outcome(result, raised) == [result |-> result, raised |-> raised]

SellExceeds == "ValueError: SELL quantity exceeds current holding"
SellNoPosition == "ValueError: SELL transaction for non-existent position"
UnknownDir == "ValueError: Unknown transaction direction"
NoTransactions == "ValueError: No transactions found in date range"
NoTcFiles == "FileNotFoundError: No trade confirmation files found"

\* mutant of CashMove: usd_total is left alone
CashMoveCashOnly(result, delta) ==
    [result EXCEPT !.cash_data = CashSet(@, "USD", CashGet(@, "USD") + delta)]

\* lines 607-610 / 703-706: cash_data['USD'] and usd_total move by delta
CashMove(result, delta) ==
    [result EXCEPT
        !.cash_data = CashSet(@, "USD", CashGet(@, "USD") + delta),
        !.usd_total = @ + delta]

\* mutant of ApplyBuy: the holding is overwritten instead of increased
ApplyBuyOverwrite(result, txn) ==
    LET k == FindPosition(result.positions, txn.stock_code)
        positions ==
            IF k # 0
            THEN [result.positions EXCEPT ![k].Holding = txn.quantity]
            ELSE Append(result.positions, NewPosition(txn, txn.quantity))
    IN  Outcome(CashMove([result EXCEPT !.positions = positions],
                         -txn.amount_usd),
                "")

\* _apply_buy
ApplyBuy(result, txn) ==
    LET k == FindPosition(result.positions, txn.stock_code)
        positions ==
            IF k # 0
            THEN [result.positions EXCEPT ![k].Holding = @ + txn.quantity]
            ELSE Append(result.positions, NewPosition(txn, txn.quantity))
    IN  Outcome(CashMove([result EXCEPT !.positions = positions],
                         -txn.amount_usd),
                "")

\* _apply_sell, quantity < 0: sell short
SellShort(result, txn, k) ==
    IF k # 0
    THEN [result.positions EXCEPT ![k].Holding = @ - Abs(txn.quantity)]
    ELSE Append(result.positions, NewPosition(txn, -Abs(txn.quantity)))

\* mutant of SellClose: a position sold down to zero stays in the list
SellCloseKeepsZero(result, txn, k) ==
    LET updated == [result.positions EXCEPT ![k].Holding = @ - txn.quantity]
    IN  IF updated[k].Holding < 0
        THEN Outcome([result EXCEPT !.positions = updated], SellExceeds)
        ELSE Outcome([result EXCEPT !.positions = updated], "")

\* mutant of SellClose: no oversell test
SellCloseNoOversellTest(result, txn, k) ==
    LET updated == [result.positions EXCEPT ![k].Holding = @ - txn.quantity]
    IN  IF updated[k].Holding = 0
        THEN Outcome([result EXCEPT
                         !.positions = RemoveFirst(updated, updated[k])],
                     "")
        ELSE Outcome([result EXCEPT !.positions = updated], "")

\* _apply_sell, quantity >= 0 on the position found at k: the holding is
\* decreased in place before the oversell test
SellClose(result, txn, k) ==
    LET updated == [result.positions EXCEPT ![k].Holding = @ - txn.quantity]
    IN  IF updated[k].Holding < 0
        THEN Outcome([result EXCEPT !.positions = updated], SellExceeds)
        ELSE IF updated[k].Holding = 0
             THEN Outcome([result EXCEPT
                              !.positions = RemoveFirst(updated, updated[k])],
                          "")
             ELSE Outcome([result EXCEPT !.positions = updated], "")

\* mutant of ApplySell: quantity 0 takes the sell-short branch
ApplySellZeroIsShort(result, txn) ==
    LET k == FindPosition(result.positions, txn.stock_code)
        moved ==
            IF txn.quantity <= 0
            THEN Outcome([result EXCEPT !.positions = SellShort(result, txn, k)], "")
            ELSE IF k # 0
                 THEN SellClose(result, txn, k)
                 ELSE Outcome(result, SellNoPosition)
    IN  IF moved.raised # ""
        THEN moved
        ELSE Outcome(CashMove(moved.result, txn.amount_usd), "")

\* _apply_sell
ApplySell(result, txn) ==
    LET k == FindPosition(result.positions, txn.stock_code)
        moved ==
            IF txn.quantity < 0
            THEN Outcome([result EXCEPT !.positions = SellShort(result, txn, k)], "")
            ELSE IF k # 0
                 THEN SellClose(result, txn, k)
                 ELSE Outcome(result, SellNoPosition)
    IN  IF moved.raised # ""
        THEN moved
        ELSE Outcome(CashMove(moved.result, txn.amount_usd), "")

\* mutant of NormalizeDirection: SELLSHORT is not mapped to SELL
NormalizeDirectionNone(direction) == direction

\* _apply_broker_transactions, the body of its loop for one transaction
NormalizeDirection(direction) ==
    IF direction = "SELLSHORT" THEN "SELL" ELSE direction

ApplyOne(result, txn) ==
    LET direction == NormalizeDirection(txn.direction)
    IN  IF direction \in {"BUY", "BUYCOVER"} THEN ApplyBuy(result, txn)
        ELSE IF direction = "SELL" THEN ApplySell(result, txn)
        ELSE Outcome(result, UnknownDir)

\* _apply_broker_transactions: the loop, stopping at the first exception
RECURSIVE ApplyBrokerTransactions(_, _)
ApplyBrokerTransactions(result, txns) ==
    IF txns = <<>> THEN Outcome(result, "")
    ELSE LET first == ApplyOne(result, Head(txns))
         IN  IF first.raised # "" THEN first
             ELSE ApplyBrokerTransactions(first.result, Tail(txns))

-----------------------------------------------------------------------------
(* Reading the trade-confirmation files *)

\* a date string 'YYYY-MM-DD' as <<yyyy, mm, dd>>: str comparison is lexicographic
DateLess(a, b) ==
    \/ a[1] < b[1]
    \/ a[1] = b[1] /\ a[2] < b[2]
    \/ a[1] = b[1] /\ a[2] = b[2] /\ a[3] < b[3]

DateLeq(a, b) == a = b \/ DateLess(a, b)

\* str(row['BUY/SELL']).strip().upper().replace(' ', '')
UpperNoSpace(text) ==
    CASE text = "Buy"        -> "BUY"
      [] text = "Sell"       -> "SELL"
      [] text = "Sell Short" -> "SELLSHORT"
      [] text = "Buy Cover"  -> "BUYCOVER"
      [] text = "Hold"       -> "HOLD"
      [] OTHER               -> text

\* standardize_option_format, for codes whose ticker is not an HK numeric code:
\* an OCC code with a 5-digit strike field is kept, the TC long form becomes
\* TICKER YYMMDD C|P int(strike)*1000 (format 05d), text without MM/DD/YY is kept
StandardizeOptionFormat(code) ==
    IF code.fmt = "OCC" /\ FieldWidth(code.k) = 5 THEN code
    ELSE IF code.fmt = "TCLONG"
         THEN Code("OCC", code.tk, "", code.exp, code.cp, code.k * 1000)
         ELSE code

Row(trade_date, broker, stock_code, buy_sell, quantity, avg_price, amount) ==
    [TradeDate |-> trade_date, Broker |-> broker, StockCode |-> stock_code,
     BuySell |-> buy_sell, Quantity |-> quantity, AvgPrice |-> avg_price,
     AmountUSD |-> amount]

\* _parse_tc_excel, the Transaction built from one row
ParseTcRow(row) ==
    Txn(row.TradeDate, Strip(row.Broker),
        StandardizeOptionFormat(row.StockCode),
        UpperNoSpace(row.BuySell), row.Quantity, row.AvgPrice,
        Abs(row.AmountUSD))

\* _parse_tc_excel, one file
ParseTcExcel(file) == [i \in 1..Len(file) |-> ParseTcRow(file[i])]

\* mutant of InWindow: the start date is included
InWindowFromStart(txn, start_date, end_date) ==
    DateLeq(start_date, txn.date) /\ DateLeq(txn.date, end_date)

\* the date window of _parse_trade_confirmations: start_date < txn.date <= end_date
InWindow(txn, start_date, end_date) ==
    DateLess(start_date, txn.date) /\ DateLeq(txn.date, end_date)

-----------------------------------------------------------------------------
(* Inputs of the model *)

IB == <<"I", "B">>
ib == <<"i", "b">>
ibPadded == <<" ", "i", "b">>
TF == <<"T", "F">>
HT == <<"H", "T">>

AAPL == Equity("AAPL")
AppleInc == Equity("APPLE INC")
CliRef == Equity("CLI-C20")
CliOcc == Code("OCC", "CLI", "", <<26, 6, 29>>, "C", 20000)
CliHkats == Code("HKATS", "CLI", "", <<26, 6, 29>>, "CALL", 20000)
CliLong == Code("TCLONG", "CLI", "HK", <<26, 6, 29>>, "C", 20)
\* the same series with strikes 0.008 and 0.016 above 20.00
CliOccNear == Code("OCC", "CLI", "", <<26, 6, 29>>, "C", 20008)
CliOccFar == Code("OCC", "CLI", "", <<26, 6, 29>>, "C", 20016)

BaseDate == <<2025, 7, 18>>
MidDate == <<2025, 7, 21>>
TargetDate == <<2025, 7, 22>>
\* a Trade Date after the window, in the next month
LateDate == <<2025, 8, 1>>

\* _calculate_usd_total with an HKD rate of 1/8
CalculateUsdTotal(cash_data) ==
    CashGet(cash_data, "USD") + (CashGet(cash_data, "HKD") \div 8)

ApplePos(h) == PositionDict(AAPL, Some(AppleInc), h, 150, "USD", 1)
CliPos(h) == PositionDict(CliHkats, Some(CliHkats), h, 3, "HKD", 1000)
\* an option the broker lists under its own reference, HKATS form in the text
CliRefPos(h) == PositionDict(CliRef, Some(CliHkats), h, 3, "HKD", 1000)

BasePositionLists ==
    {<<>>, <<CliPos(1)>>, <<ApplePos(2), CliRefPos(2)>>}
        \cup {<<ApplePos(h)>> : h \in {-1, 1, 2}}

BaseCash == {[USD |-> 50, HKD |-> 16], [HKD |-> 16]}

Account(name, id, cash, positions) ==
    ProcessedResult(name, id, cash, positions, CalculateUsdTotal(cash))

\* one account, two accounts of one broker whose names differ in case, or
\* the accounts of two brokers
BaseResultLists ==
    {<<Account(IB, "U1", c, ps)>> : c \in BaseCash, ps \in BasePositionLists}
        \cup {<<Account(IB, "U1", c, ps),
                Account(ib, "U2", [USD |-> 50, HKD |-> 16], <<ApplePos(2)>>)>> :
                 c \in BaseCash, ps \in BasePositionLists}
        \cup {<<Account(TF, "T1", [USD |-> 50, HKD |-> 16], <<CliPos(1)>>),
                Account(IB, "U1", [USD |-> 50, HKD |-> 16], <<ApplePos(2)>>)>>}

Trade(broker, stock_code, direction, quantity) ==
    Txn(MidDate, broker, stock_code, direction, quantity, 5,
        5 * Abs(quantity) + 1)

TxnUniverse ==
    {Trade(ibPadded, AAPL, "BUY", q) : q \in 1..MaxQty}
        \cup {Trade(ibPadded, AAPL, "SELL", q) : q \in {-1} \cup (0..MaxQty)}
        \cup {Trade(ibPadded, AAPL, "SELLSHORT", -1),
              Trade(ibPadded, AAPL, "BUYCOVER", 1),
              Trade(ibPadded, AAPL, "HOLD", 1),
              Trade(ibPadded, CliOcc, "BUY", 1),
              Trade(ibPadded, CliOccNear, "BUY", 1),
              Trade(TF, AAPL, "BUY", 1)}
        \cup {Trade(ibPadded, CliOcc, "SELL", q) : q \in 1..MaxQty}

RowUniverse ==
    {Row(d, ib, AAPL, "Buy", 1, 5, -6) :
        d \in {BaseDate, MidDate, TargetDate, LateDate}}
        \cup {Row(MidDate, ib, CliLong, "Sell", 1, 5, 6),
              Row(TargetDate, ib, AAPL, "Hold", 1, 5, 6)}

RunBaseResults ==
    <<Account(IB, "U1", [USD |-> 50, HKD |-> 16], <<ApplePos(2), CliPos(1)>>),
      Account(HT, "H1", [USD |-> 50], <<>>)>>

-----------------------------------------------------------------------------
(* State machine *)

\* no price optimization is under way
OptIdle ==
    /\ optimized_prices = <<>>
    /\ responses = <<>>
    /\ run = 0
    /\ first_run = <<>>

\* no call is under way
CallIdle ==
    /\ arg = <<>>
    /\ ret = <<>>
    /\ tried = <<>>

\* a new processor and a new exchange rate handler without a cache file
ServiceIdle ==
    /\ hk_code_cache = <<>>
    /\ chain_queries = <<>>
    /\ rate_cache = <<>>
    /\ cache_file = None
    /\ api_calls = <<>>

\* _apply_transactions called on a base list and a transaction list
Init ==
    /\ pc = "group"
    /\ tc_files = <<>>
    /\ fi = 1
    /\ all_transactions = <<>>
    /\ transactions \in SeqsUpTo(TxnUniverse, MaxTxns)
    /\ results \in BaseResultLists
    /\ broker_txns = <<>>
    /\ ri = 1
    /\ ti = 1
    /\ error = ""
    /\ base = results
    /\ applied = <<>>
    /\ unique_symbols = <<>>
    /\ si = 1
    /\ queried = <<>>
    /\ price_failures = <<>>
    /\ saved = None
    /\ OptIdle
    /\ CallIdle
    /\ ServiceIdle

\* process_with_trade_confirmation after phase 1, on up to two TC files
InitRun ==
    /\ pc = "parse"
    /\ tc_files \in SeqsUpTo(SeqsUpTo(RowUniverse, MaxRows), 2)
    /\ fi = 1
    /\ all_transactions = <<>>
    /\ transactions = <<>>
    /\ results = RunBaseResults
    /\ broker_txns = <<>>
    /\ ri = 1
    /\ ti = 1
    /\ error = ""
    /\ base = results
    /\ applied = <<>>
    /\ unique_symbols = <<>>
    /\ si = 1
    /\ queried = <<>>
    /\ price_failures = <<>>
    /\ saved = None
    /\ OptIdle
    /\ CallIdle
    /\ ServiceIdle

\* _parse_trade_confirmations, lines 336-345: no file matches TC-*.xlsx
TcFilesMissing ==
    /\ pc = "parse"
    /\ tc_files = <<>>
    /\ pc' = "error"
    /\ error' = NoTcFiles
    /\ UNCHANGED <<tc_files, fi, all_transactions, transactions, results,
                   broker_txns, ri, ti, base, applied>>
    /\ UNCHANGED priceVars
    /\ UNCHANGED <<optVars, callVars, serviceVars>>

\* _parse_trade_confirmations, lines 350-357: one file of sorted(glob)
ParseTcFile ==
    /\ pc = "parse"
    /\ fi <= Len(tc_files)
    /\ all_transactions' = all_transactions \o ParseTcExcel(tc_files[fi])
    /\ fi' = fi + 1
    /\ UNCHANGED <<pc, tc_files, transactions, results, broker_txns, ri, ti,
                   error, base, applied>>
    /\ UNCHANGED priceVars
    /\ UNCHANGED <<optVars, callVars, serviceVars>>

\* _parse_trade_confirmations, lines 359-370, and the empty-list test of
\* process_with_trade_confirmation, lines 272-284
FilterByDate ==
    /\ pc = "parse"
    /\ tc_files # <<>>
    /\ fi > Len(tc_files)
    /\ LET kept == SelectSeq(all_transactions,
                             LAMBDA txn : InWindow(txn, BaseDate, TargetDate))
       IN  /\ transactions' = kept
           /\ pc' = IF kept = <<>> THEN "error" ELSE "group"
           /\ error' = IF kept = <<>> THEN NoTransactions ELSE ""
    /\ UNCHANGED <<tc_files, fi, all_transactions, results, broker_txns, ri,
                   ti, base, applied>>
    /\ UNCHANGED priceVars
    /\ UNCHANGED <<optVars, callVars, serviceVars>>

\* broker_txns holds references to the Transaction objects: indices into
\* transactions, in list order
GroupOf(txns, key) ==
    SelectSeq([i \in 1..Len(txns) |-> i],
              LAMBDA i : BrokerKey(txns[i].broker) = key)

\* _apply_transactions, lines 517-523
GroupByBroker ==
    /\ pc = "group"
    /\ broker_txns' =
           [key \in {BrokerKey(transactions[i].broker) :
                        i \in 1..Len(transactions)} |->
               GroupOf(transactions, key)]
    /\ ri' = 1
    /\ ti' = 1
    /\ pc' = IF results = <<>> THEN "done" ELSE "apply"
    /\ UNCHANGED <<tc_files, fi, all_transactions, transactions, results,
                   error, base, applied>>
    /\ UNCHANGED priceVars
    /\ UNCHANGED <<optVars, callVars, serviceVars>>

CurKey == BrokerKey(results[ri].broker_name)
CurTxns == broker_txns[CurKey]
CurTxn == transactions[CurTxns[ti]]

\* the for loop of _apply_transactions moves to the next result
NextResult ==
    /\ ri' = ri + 1
    /\ ti' = 1
    /\ pc' = IF ri + 1 > Len(results) THEN "done" ELSE "apply"

\* _apply_transactions, lines 533-534: no transactions for this broker
SkipResult ==
    /\ pc = "apply"
    /\ CurKey \notin DOMAIN broker_txns
    /\ NextResult
    /\ UNCHANGED <<tc_files, fi, all_transactions, transactions, results,
                   broker_txns, error, base, applied>>
    /\ UNCHANGED priceVars
    /\ UNCHANGED <<optVars, callVars, serviceVars>>

\* mutant of Step: an exception is recorded and the loop goes on
StepSwallowsError(outcome) ==
    /\ results' = [results EXCEPT ![ri] = outcome.result]
    /\ applied' = Append(applied,
                         [result |-> ri, txn |-> CurTxns[ti],
                          before |-> results[ri], after |-> outcome.result,
                          raised |-> outcome.raised])
    /\ error' = error
    /\ IF ti < Len(CurTxns)
       THEN ti' = ti + 1 /\ UNCHANGED <<pc, ri>>
       ELSE NextResult
    /\ UNCHANGED <<tc_files, fi, all_transactions, transactions, broker_txns,
                   base>>
    /\ UNCHANGED priceVars
    /\ UNCHANGED <<optVars, callVars, serviceVars>>

\* one round of the loop of _apply_broker_transactions with its outcome
Step(outcome) ==
    /\ results' = [results EXCEPT ![ri] = outcome.result]
    /\ applied' = Append(applied,
                         [result |-> ri, txn |-> CurTxns[ti],
                          before |-> results[ri], after |-> outcome.result,
                          raised |-> outcome.raised])
    /\ error' = outcome.raised
    /\ IF outcome.raised # ""
       THEN pc' = "error" /\ UNCHANGED <<ri, ti>>
       ELSE IF ti < Len(CurTxns)
            THEN ti' = ti + 1 /\ UNCHANGED <<pc, ri>>
            ELSE NextResult
    /\ UNCHANGED <<tc_files, fi, all_transactions, transactions, broker_txns,
                   base>>
    /\ UNCHANGED priceVars
    /\ UNCHANGED <<optVars, callVars, serviceVars>>

Dispatching == pc = "apply" /\ CurKey \in DOMAIN broker_txns

\* _apply_broker_transactions, lines 556-558
ApplyBuyStep ==
    /\ Dispatching
    /\ NormalizeDirection(CurTxn.direction) \in {"BUY", "BUYCOVER"}
    /\ Step(ApplyBuy(results[ri], CurTxn))

\* _apply_broker_transactions, lines 559-560
ApplySellStep ==
    /\ Dispatching
    /\ NormalizeDirection(CurTxn.direction) = "SELL"
    /\ Step(ApplySell(results[ri], CurTxn))

\* _apply_broker_transactions, lines 561-569
UnknownDirectionStep ==
    /\ Dispatching
    /\ NormalizeDirection(CurTxn.direction) \notin {"BUY", "BUYCOVER", "SELL"}
    /\ Step(Outcome(results[ri], UnknownDir))

Next ==
    \/ GroupByBroker
    \/ SkipResult
    \/ ApplyBuyStep
    \/ ApplySellStep
    \/ UnknownDirectionStep

\* what get_stock_price gives back: a (price, currency) tuple or an exception
Quote(price, currency) == [price |-> price, currency |-> currency, raises |-> FALSE]
QuoteRaises == [price |-> None, currency |-> "", raises |-> TRUE]
PriceResponses == {Quote(Some(7), "USD"), Quote(None, ""), QuoteRaises}

\* price is not None and price > 0.0 and api_currency
ValidQuote(resp) ==
    ~resp.raises /\ resp.price # None /\ resp.price[1] > 0 /\ resp.currency # ""

\* the keys of a dict filled in the order of a list: first occurrences
RECURSIVE DictKeys(_)
DictKeys(keys) ==
    IF keys = <<>> THEN <<>>
    ELSE LET rest == DictKeys(SubSeq(keys, 1, Len(keys) - 1))
             last == keys[Len(keys)]
         IN  IF \E i \in 1..Len(rest) : rest[i] = last
             THEN rest ELSE Append(rest, last)

\* _update_prices, lines 1001-1007: the keys of unique_symbols
UniqueSymbols(rs) ==
    DictKeys(Flatten([i \in 1..Len(rs) |->
                         [j \in 1..Len(rs[i].positions) |->
                             rs[i].positions[j].StockCode]]))

\* _update_prices, lines 1027-1031: every position of the symbol gets the price
SetFinalPrice(rs, symbol, resp) ==
    [i \in 1..Len(rs) |->
        [rs[i] EXCEPT !.positions =
            [j \in 1..Len(rs[i].positions) |->
                IF rs[i].positions[j].StockCode = symbol
                THEN [rs[i].positions[j] EXCEPT
                         !.FinalPrice = resp.price,
                         !.FinalPriceSource = "Futu",
                         !.OptimizedPriceCurrency = resp.currency]
                ELSE rs[i].positions[j]]]]

\* process_with_trade_confirmation, lines 291-297: phase 3 starts when
\* _apply_transactions has returned
StartPriceUpdate ==
    /\ pc = "done"
    /\ unique_symbols' = UniqueSymbols(results)
    /\ si' = 1
    /\ pc' = "prices"
    /\ UNCHANGED <<tc_files, fi, all_transactions, transactions, results,
                   broker_txns, ri, ti, error, base, applied, queried,
                   price_failures, saved>>
    /\ UNCHANGED <<optVars, callVars, serviceVars>>

\* _update_prices, one round of the loop over unique_symbols: an invalid
\* price and an exception are recorded in price_failures, the loop goes on
FetchPrice ==
    /\ pc = "prices"
    /\ si <= Len(unique_symbols)
    /\ \E resp \in PriceResponses :
           /\ queried' = Append(queried, unique_symbols[si])
           /\ IF ValidQuote(resp)
              THEN /\ results' = SetFinalPrice(results, unique_symbols[si], resp)
                   /\ UNCHANGED price_failures
              ELSE /\ price_failures' = Append(price_failures, unique_symbols[si])
                   /\ UNCHANGED results
    /\ si' = si + 1
    /\ UNCHANGED <<pc, tc_files, fi, all_transactions, transactions,
                   broker_txns, ri, ti, error, base, applied, unique_symbols,
                   saved>>
    /\ UNCHANGED <<optVars, callVars, serviceVars>>

\* _update_prices ends, the report is logged, the results are returned
ReturnResults ==
    /\ pc = "prices"
    /\ si > Len(unique_symbols)
    /\ pc' = "returned"
    /\ UNCHANGED <<tc_files, fi, all_transactions, transactions, results,
                   broker_txns, ri, ti, error, base, applied>>
    /\ UNCHANGED priceVars
    /\ UNCHANGED <<optVars, callVars, serviceVars>>

\* main, lines 265-281: the returned results are persisted
SaveResults ==
    /\ pc = "returned"
    /\ saved' = IF results # <<>> THEN Some(results) ELSE None
    /\ pc' = "saved"
    /\ UNCHANGED <<tc_files, fi, all_transactions, transactions, results,
                   broker_txns, ri, ti, error, base, applied, unique_symbols,
                   si, queried, price_failures>>
    /\ UNCHANGED <<optVars, callVars, serviceVars>>

\* main, lines 223-227: any exception of the run ends the process with
\* sys.exit(1)
ExitOnError ==
    /\ pc = "error"
    /\ pc' = "exit"
    /\ UNCHANGED <<tc_files, fi, all_transactions, transactions, results,
                   broker_txns, ri, ti, error, base, applied>>
    /\ UNCHANGED priceVars
    /\ UNCHANGED <<optVars, callVars, serviceVars>>

NextRun ==
    \/ TcFilesMissing
    \/ ParseTcFile
    \/ FilterByDate
    \/ Next
    \/ StartPriceUpdate
    \/ FetchPrice
    \/ ReturnResults
    \/ SaveResults
    \/ ExitOnError

Spec == Init /\ [][Next]_vars

SpecRun == InitRun /\ [][NextRun]_vars

-----------------------------------------------------------------------------
(* Reading the history *)

IsBuy(txn) == txn.direction \in {"BUY", "BUYCOVER"}
IsSell(txn) == txn.direction \in {"SELL", "SELLSHORT"}

Entries == 1..Len(applied)
TxnOf(n) == transactions[applied[n].txn]
MatchOf(n) == FindPosition(applied[n].before.positions, TxnOf(n).stock_code)

\* holding of a symbol in a snapshot, 0 when find-position finds none
HoldingOf(result, stock_code) ==
    LET k == FindPosition(result.positions, stock_code)
    IN  IF k = 0 THEN 0 ELSE result.positions[k].Holding

-----------------------------------------------------------------------------
(* C1  Oversell rejection is all-or-nothing: a SELL of positive quantity    *)
(* larger than the positive holding of the matched position raises, and the *)
(* broker's positions are exactly what they were before the transaction.    *)
C1_OversellLeavesPositions ==
    \A n \in Entries :
        (/\ IsSell(TxnOf(n))
         /\ TxnOf(n).quantity > 0
         /\ MatchOf(n) # 0
         /\ applied[n].before.positions[MatchOf(n)].Holding > 0
         /\ TxnOf(n).quantity > applied[n].before.positions[MatchOf(n)].Holding)
        => /\ applied[n].raised # ""
           /\ applied[n].after.positions = applied[n].before.positions

(* C3  Each transaction is consumed exactly once: over the whole result     *)
(* list no transaction is applied to more than one snapshot or more than    *)
(* once, also when several results carry the same broker name up to case.   *)
C3_ConsumedAtMostOnce ==
    \A j \in 1..Len(transactions) :
        Cardinality({n \in Entries : applied[n].txn = j}) <= 1

(* C4  No transaction silently no-ops: when the engine returns without an   *)
(* error, every transaction it was handed has changed the holdings or the   *)
(* cash of some snapshot.                                                   *)
C4_NoSilentNoOp ==
    pc = "done" =>
        \A j \in 1..Len(transactions) :
            \E n \in Entries :
                /\ applied[n].txn = j
                /\ applied[n].after # applied[n].before

-----------------------------------------------------------------------------
\* signed cash effect of an applied transaction: BUY subtracts, SELL adds
CashEffect(txn) == IF IsBuy(txn) THEN -txn.amount_usd ELSE txn.amount_usd

\* sum of the cash effects of the transactions applied to result i so far
CashEffectsOn(i) ==
    SumSeq([n \in Entries |->
               IF applied[n].result = i THEN CashEffect(TxnOf(n)) ELSE 0])

\* the transactions of result i in the order given by the permutation p
Reordered(i, p) ==
    LET idx == broker_txns[BrokerKey(base[i].broker_name)]
    IN  [m \in 1..Len(idx) |-> transactions[idx[p[m]]]]

(* C2  Cash conservation: each applied BUY/BUYCOVER lowers usd_total and    *)
(* cash_data['USD'] by exactly amount_usd, each applied SELL/SELLSHORT      *)
(* raises them by exactly amount_usd; after a sequence applied without      *)
(* error usd_total = base usd_total - sum(BUY) + sum(SELL), and every       *)
(* order of the same transactions that applies without error ends with     *)
(* the same value.                                                          *)
C2_CashConservation ==
    /\ \A n \in Entries :
           applied[n].raised = "" =>
               /\ applied[n].after.usd_total =
                      applied[n].before.usd_total + CashEffect(TxnOf(n))
               /\ CashGet(applied[n].after.cash_data, "USD") =
                      CashGet(applied[n].before.cash_data, "USD")
                          + CashEffect(TxnOf(n))
    /\ pc # "error" =>
           \A i \in 1..Len(results) :
               /\ results[i].usd_total = base[i].usd_total + CashEffectsOn(i)
               /\ CashGet(results[i].cash_data, "USD") =
                      CashGet(base[i].cash_data, "USD") + CashEffectsOn(i)
    /\ pc = "done" =>
           \A i \in 1..Len(results) :
               BrokerKey(base[i].broker_name) \in DOMAIN broker_txns =>
                   \A p \in Permutations(
                                1..Len(broker_txns[BrokerKey(base[i].broker_name)])) :
                       LET o == ApplyBrokerTransactions(base[i], Reordered(i, p))
                       IN  o.raised = "" =>
                               /\ o.result.usd_total = results[i].usd_total
                               /\ o.result.cash_data = results[i].cash_data

\* a run that ended without error after a BUY and a SELL on one result
C2_Witness ==
    /\ pc = "done"
    /\ \E n, m \in Entries :
           /\ applied[n].result = applied[m].result
           /\ IsBuy(TxnOf(n))
           /\ IsSell(TxnOf(m))
           /\ TxnOf(n).amount_usd # TxnOf(m).amount_usd

-----------------------------------------------------------------------------
\* the end-to-end example of the specification, section 8 item 9
ExampleBase ==
    ProcessedResult(IB, "U1", [USD |-> 10000],
                    <<PositionDict(AAPL, Some(AppleInc), 100, 150, "USD", 1)>>,
                    10000)
ExampleBuy == Txn(MidDate, IB, AAPL, "BUY", 50, 160, 8000)

(* C5  BUY semantics: a BUY of quantity q and amount a adds q to the        *)
(* holding of the matching position if there is one and otherwise appends   *)
(* one new position with holding q and broker price avg_price; USD cash     *)
(* and usd_total each drop by a; no other position changes; AAPL 100 with   *)
(* USD 10000 and BUY 50 for 8000 give AAPL 150 and USD 2000.                *)
C5_BuySemantics ==
    /\ \A n \in Entries :
           IsBuy(TxnOf(n)) =>
               LET b == applied[n].before
                   a == applied[n].after
                   t == TxnOf(n)
                   k == MatchOf(n)
               IN  /\ applied[n].raised = ""
                   /\ k # 0 =>
                          /\ Len(a.positions) = Len(b.positions)
                          /\ a.positions[k] =
                                 [b.positions[k] EXCEPT
                                     !.Holding = b.positions[k].Holding + t.quantity]
                          /\ \A j \in 1..Len(b.positions) :
                                 j # k => a.positions[j] = b.positions[j]
                   /\ k = 0 =>
                          /\ Len(a.positions) = Len(b.positions) + 1
                          /\ SubSeq(a.positions, 1, Len(b.positions)) = b.positions
                          /\ a.positions[Len(a.positions)].StockCode = t.stock_code
                          /\ a.positions[Len(a.positions)].Holding = t.quantity
                          /\ a.positions[Len(a.positions)].BrokerPrice = t.avg_price
                   /\ CashGet(a.cash_data, "USD") =
                          CashGet(b.cash_data, "USD") - t.amount_usd
                   /\ a.usd_total = b.usd_total - t.amount_usd
    /\ LET after == ApplyBuy(ExampleBase, ExampleBuy).result
       IN  /\ Len(after.positions) = 1
           /\ after.positions[1].Holding = 150
           /\ after.cash_data["USD"] = 2000

\* one BUY added to a position found by option equivalence, one BUY created
\* a position
C5_Witness ==
    \E n, m \in Entries :
        /\ IsBuy(TxnOf(n))
        /\ MatchOf(n) # 0
        /\ applied[n].before.positions[MatchOf(n)].StockCode # TxnOf(n).stock_code
        /\ IsBuy(TxnOf(m))
        /\ MatchOf(m) = 0

-----------------------------------------------------------------------------
\* entry n is a BUY of Q and entry n + 1 the SELL of the same positive Q on
\* the same symbol of the same result
BuyThenSell(n) ==
    /\ n + 1 \in Entries
    /\ applied[n].result = applied[n + 1].result
    /\ IsBuy(TxnOf(n))
    /\ IsSell(TxnOf(n + 1))
    /\ TxnOf(n).stock_code = TxnOf(n + 1).stock_code
    /\ TxnOf(n).quantity > 0
    /\ TxnOf(n).quantity = TxnOf(n + 1).quantity

(* C6  Holding conservation: BUY Q then SELL Q (Q > 0) on one symbol with   *)
(* nothing in between leaves the symbol's holding at its value before the   *)
(* BUY, and if the broker had no position in the symbol before the BUY      *)
(* none remains afterwards.                                                 *)
C6_HoldingConservation ==
    \A n \in Entries :
        BuyThenSell(n) =>
            LET code == TxnOf(n).stock_code
                b == applied[n].before
                a == applied[n + 1].after
            IN  /\ HoldingOf(a, code) = HoldingOf(b, code)
                /\ FindPosition(b.positions, code) = 0 =>
                       /\ applied[n + 1].raised = ""
                       /\ FindPosition(a.positions, code) = 0
                       /\ a.positions = b.positions

\* both cases in one run is impossible with two transactions on one symbol,
\* so the witness is the case of a symbol the broker did not hold
C6_Witness ==
    \E n \in Entries :
        /\ BuyThenSell(n)
        /\ FindPosition(applied[n].before.positions, TxnOf(n).stock_code) = 0
        /\ applied[n].before.positions # <<>>

-----------------------------------------------------------------------------
(* C7  A SELL of non-negative quantity for a stock code that matches no     *)
(* position of the broker, neither exactly nor by option equivalence,       *)
(* raises a fatal error and changes nothing: positions, cash_data and       *)
(* usd_total are as before it.                                              *)
C7_SellWithoutPosition ==
    \A n \in Entries :
        (/\ IsSell(TxnOf(n))
         /\ TxnOf(n).quantity >= 0
         /\ \A j \in 1..Len(applied[n].before.positions) :
                LET pos == applied[n].before.positions[j]
                    parsed == ParseOptionWithExistingLogic(TxnOf(n).stock_code)
                IN  /\ pos.StockCode # TxnOf(n).stock_code
                    /\ parsed # None => ~FuzzyHit(pos, parsed[1]))
        => /\ applied[n].raised = SellNoPosition
           /\ applied[n].after = applied[n].before
           /\ pc = "error"
           /\ results[applied[n].result] = applied[n].before

\* a SELL of quantity 0 and a SELL of positive quantity are both covered by
\* the runs; the witness is the quantity-0 case on a broker with positions
C7_Witness ==
    \E n \in Entries :
        /\ IsSell(TxnOf(n))
        /\ TxnOf(n).quantity = 0
        /\ MatchOf(n) = 0
        /\ applied[n].before.positions # <<>>
        /\ applied[n].raised # ""

-----------------------------------------------------------------------------
\* the StockCode of the position entry n acted on: the one found, or the
\* one the transaction created
TargetCode(n) ==
    IF MatchOf(n) # 0
    THEN applied[n].before.positions[MatchOf(n)].StockCode
    ELSE TxnOf(n).stock_code

(* C8  Holdings never go negative except for intentional shorts: while no   *)
(* transaction has raised, a position has a negative holding only if its    *)
(* holding was negative in the base snapshot or a SELL/SELLSHORT with       *)
(* negative quantity was applied to it; a SELL of positive quantity never   *)
(* completes with a negative resulting holding.                             *)
C8_NegativeOnlyByShort ==
    /\ pc # "error" =>
           \A i \in 1..Len(results) :
               \A j \in 1..Len(results[i].positions) :
                   results[i].positions[j].Holding < 0 =>
                       \/ \E b \in 1..Len(base[i].positions) :
                              /\ base[i].positions[b].StockCode =
                                     results[i].positions[j].StockCode
                              /\ base[i].positions[b].Holding < 0
                       \/ \E n \in Entries :
                              /\ applied[n].result = i
                              /\ IsSell(TxnOf(n))
                              /\ TxnOf(n).quantity < 0
                              /\ TargetCode(n) = results[i].positions[j].StockCode
    /\ \A n \in Entries :
           (IsSell(TxnOf(n)) /\ TxnOf(n).quantity > 0 /\ applied[n].raised = "")
           => /\ MatchOf(n) # 0
              /\ applied[n].before.positions[MatchOf(n)].Holding
                     - TxnOf(n).quantity >= 0
              /\ \A j \in 1..Len(applied[n].after.positions) :
                     applied[n].after.positions[j].Holding < 0 =>
                         \E b \in 1..Len(applied[n].before.positions) :
                             /\ applied[n].before.positions[b].Holding < 0
                             /\ applied[n].before.positions[b] =
                                    applied[n].after.positions[j]

\* a run without error that opened a short and then closed part of a long
C8_Witness ==
    /\ pc = "done"
    /\ \E n, m \in Entries :
           /\ IsSell(TxnOf(n)) /\ TxnOf(n).quantity < 0
           /\ IsSell(TxnOf(m)) /\ TxnOf(m).quantity > 0
    /\ \E i \in 1..Len(results) :
           \E j \in 1..Len(results[i].positions) :
               results[i].positions[j].Holding < 0

-----------------------------------------------------------------------------
OtherDirections == {"HOLD", "sell", "SHORT", ""}

(* C9  Direction normalization: for every transaction, SELLSHORT gives     *)
(* exactly the state or error that SELL gives, BUYCOVER exactly what BUY    *)
(* gives, and any other direction string raises a fatal error instead of    *)
(* being skipped.                                                           *)
C9_DirectionNormalization ==
    /\ \A n \in Entries :
           /\ Outcome(applied[n].after, applied[n].raised) =
                  ApplyOne(applied[n].before, TxnOf(n))
           /\ ~IsBuy(TxnOf(n)) /\ ~IsSell(TxnOf(n)) =>
                  /\ applied[n].raised = UnknownDir
                  /\ pc = "error"
    /\ Dispatching =>
           \A t \in {CurTxn} :   \* the transaction about to be dispatched
               /\ ApplyOne(results[ri], [t EXCEPT !.direction = "SELLSHORT"]) =
                      ApplySell(results[ri], [t EXCEPT !.direction = "SELL"])
               /\ ApplyOne(results[ri], [t EXCEPT !.direction = "SELL"]) =
                      ApplySell(results[ri], [t EXCEPT !.direction = "SELL"])
               /\ ApplyOne(results[ri], [t EXCEPT !.direction = "BUYCOVER"]) =
                      ApplyBuy(results[ri], [t EXCEPT !.direction = "BUY"])
               /\ ApplyOne(results[ri], [t EXCEPT !.direction = "BUY"]) =
                      ApplyBuy(results[ri], [t EXCEPT !.direction = "BUY"])
               /\ \A d \in OtherDirections :
                      ApplyOne(results[ri], [t EXCEPT !.direction = d]).raised =
                          UnknownDir

\* a run applied a SELLSHORT and a BUYCOVER, another direction then raised
C9_Witness ==
    \E n, m \in Entries :
        /\ TxnOf(n).direction \in {"SELLSHORT", "BUYCOVER"}
        /\ applied[n].raised = ""
        /\ TxnOf(m).direction = "HOLD"
        /\ applied[m].raised = UnknownDir

-----------------------------------------------------------------------------
(* C10  Per-broker chronological ordering: the transactions applied to any  *)
(* one broker are applied in non-decreasing Trade Date order, whatever the  *)
(* order of the TC files and of the rows inside them.                       *)
C10_Chronological ==
    \A n, m \in Entries :
        (n < m /\ applied[n].result = applied[m].result)
        => DateLeq(TxnOf(n).date, TxnOf(m).date)

-----------------------------------------------------------------------------
\* the stock codes a holding can be asked for
Symbols == {AAPL, CliRef, CliOcc, CliOccNear, CliOccFar, CliHkats}

\* the positions _find_position accepts for a stock code, exactly or by
\* option equivalence
SamePositions(positions, stock_code) ==
    LET parsed_tc == ParseOptionWithExistingLogic(stock_code)
    IN  {i \in 1..Len(positions) :
            \/ positions[i].StockCode = stock_code
            \/ parsed_tc # None /\ FuzzyHit(positions[i], parsed_tc[1])}

\* net holding of a symbol: the holdings of all its positions, 0 without one
NetHolding(result, stock_code) ==
    SumSeq([i \in 1..Len(result.positions) |->
               IF i \in SamePositions(result.positions, stock_code)
               THEN result.positions[i].Holding ELSE 0])

(* C11  Order matters only for errors: when one broker's transactions have  *)
(* been applied without error, every other order of the same transactions   *)
(* that also applies without error ends with the same net holding of every  *)
(* symbol, a symbol without a position counting as 0.                       *)
C11_OrderIndependentHoldings ==
    pc = "done" =>
        \A i \in 1..Len(results) :
            BrokerKey(base[i].broker_name) \in DOMAIN broker_txns =>
                \A p \in Permutations(
                             1..Len(broker_txns[BrokerKey(base[i].broker_name)])) :
                    LET o == ApplyBrokerTransactions(base[i], Reordered(i, p))
                    IN  o.raised = "" =>
                            \A s \in Symbols :
                                NetHolding(o.result, s) = NetHolding(results[i], s)

-----------------------------------------------------------------------------
\* every transaction grouped under the broker of a result has been applied
\* to that result without an exception
AllApplied ==
    \A i \in 1..Len(results) :
        BrokerKey(results[i].broker_name) \in DOMAIN broker_txns =>
            \A m \in 1..Len(broker_txns[BrokerKey(results[i].broker_name)]) :
                \E n \in Entries :
                    /\ applied[n].result = i
                    /\ applied[n].txn = broker_txns[BrokerKey(results[i].broker_name)][m]
                    /\ applied[n].raised = ""

PersistedRun ==
    /\ pc = "saved"
    /\ saved = Some(results)
    /\ Len(queried) >= 2
    /\ Len(applied) >= 2
    /\ price_failures # <<>>

-----------------------------------------------------------------------------
(* Option parsing: ParserRegistry and the parsers of src/src/option_parser.py *)
(* Further surface forms of a code string                                   *)
(*   fmt "HKPAREN" "(XXX.HK YYYYMMDD CALL|PUT STRIKE)", exp <<yyyy, mm, dd>>, *)
(*                 k in thousandths      "(CLI.HK 20260629 CALL 20.0)"      *)
(*   fmt "OTC"     free text with the word OTC                              *)
(*                 "CALL OTC-0388 1.0@350.0 EXP 09/21/2026 HKEX (EURO)"     *)
(* All letters of the codes of the model are upper case.                    *)

\* number of letters of a ticker made of letters
TickerLength(tk) ==
    CASE tk \in {"CLI", "OTC", "XYZ"} -> 3
      [] tk \in {"SBET", "AAPL", "EURO"} -> 4
      [] tk = "GOOGL" -> 5
      [] OTHER -> 0

\* any(kw in code.upper() for kw in ['OTC', 'EURO', 'AMERICAN'])
ContainsOtcKeyword(code) == code.fmt = "OTC" \/ code.tk \in {"OTC", "EURO"}

ParsedOption(format_type, original_code, underlying, expiry_date, strike, option_type, multiplier, currency, hk_numeric_code, hkats_resolved) ==
    [format_type |-> format_type, original_code |-> original_code,
     underlying |-> underlying, expiry_date |-> expiry_date,
     strike |-> strike, option_type |-> option_type,
     multiplier |-> multiplier, currency |-> currency,
     hk_numeric_code |-> hk_numeric_code, hkats_resolved |-> hkats_resolved]

\* ParsedOption(format_type='UNPARSEABLE', original_code=code)
Unparseable(code) ==
    ParsedOption("UNPARSEABLE", code, None, None, None, None, 1, "USD", None, FALSE)

\* what a call of parser.parse does: it returns a ParsedOption or raises
Returns(value) == [raises |-> FALSE, value |-> value]
Raises == [raises |-> TRUE]

CallOrPut(cp) == IF cp \in {"C", "CALL"} THEN "CALL" ELSE "PUT"

\* the resolve function injected into HKNumericParser: the HKATS letter
\* code of a numeric code, None when the option chain gives none
ResolveFunc(numeric) == IF numeric = "2628" THEN Some("CLI") ELSE None

\* a test double: claims every code and returns it as format 'STUB'
StubParses == "StubParses"
\* a test double: claims every code, and its parse raises
StubRaises == "StubRaises"

\* can_parse of each parser class
CanParse(parser, code) ==
    CASE parser = "OTCParser" -> ContainsOtcKeyword(code)
      [] parser = "USOCCParser" ->
             /\ code.fmt = "OCC"
             /\ TickerLength(code.tk) \in 1..4
             /\ FieldWidth(code.k) = 5
      [] parser = "HKHKATSParser" ->
             code.fmt \in {"HKATS", "HKPAREN"} /\ TickerLength(code.tk) = 3
      [] parser = "USLongFormatParser" ->
             code.fmt = "TCLONG" /\ code.mkt = "US" /\ IsAlpha(code.tk)
      [] parser = "HKNumericParser" ->
             code.fmt = "TCLONG" /\ code.mkt \in {"HK", "C1"} /\ ~IsAlpha(code.tk)
      [] OTHER -> TRUE

\* parse of each parser class, for a code its can_parse accepts; date() and
\* strptime raise ValueError for an impossible date
ParserParse(parser, code) ==
    CASE parser = "OTCParser" ->
             Returns(ParsedOption("OTC", code, None, None, None, None, 1,
                                  IF code.fmt = "OTC" THEN "HKD" ELSE "USD",
                                  None, FALSE))
      [] parser = "USOCCParser" ->
             IF ValidDate(2000 + code.exp[1], code.exp[2], code.exp[3])
             THEN Returns(ParsedOption("US_OCC", code, Some(code.tk),
                                       Some(<<2000 + code.exp[1], code.exp[2],
                                              code.exp[3]>>),
                                       Some(code.k), Some(CallOrPut(code.cp)),
                                       100, "USD", None, FALSE))
             ELSE Raises
      [] parser = "HKHKATSParser" ->
             LET year == IF code.fmt = "HKATS" THEN 2000 + code.exp[1]
                         ELSE code.exp[1]
             IN  IF ValidDate(year, code.exp[2], code.exp[3])
                 THEN Returns(ParsedOption("HK_HKATS", code, Some(code.tk),
                                           Some(<<year, code.exp[2], code.exp[3]>>),
                                           Some(code.k), Some(CallOrPut(code.cp)),
                                           1000, "HKD", None, TRUE))
                 ELSE Raises
      [] parser = "USLongFormatParser" ->
             IF ValidDate(2000 + code.exp[1], code.exp[2], code.exp[3])
             THEN Returns(ParsedOption("US_OCC", code, Some(code.tk),
                                       Some(<<2000 + code.exp[1], code.exp[2],
                                              code.exp[3]>>),
                                       Some(code.k * 1000),
                                       Some(CallOrPut(code.cp)),
                                       100, "USD", None, FALSE))
             ELSE Raises
      [] parser = "HKNumericParser" ->
             IF ValidDate(2000 + code.exp[1], code.exp[2], code.exp[3])
             THEN Returns(ParsedOption("HK_HKATS", code,
                                       IF ResolveFunc(code.tk) # None
                                       THEN ResolveFunc(code.tk) ELSE Some(code.tk),
                                       Some(<<2000 + code.exp[1], code.exp[2],
                                              code.exp[3]>>),
                                       Some(code.k * 1000),
                                       Some(CallOrPut(code.cp)),
                                       1000, "HKD", Some(code.tk),
                                       ResolveFunc(code.tk) # None))
             ELSE Raises
      [] parser = StubParses ->
             Returns(ParsedOption("STUB", code, None, None, None, None, 1, "USD",
                                  None, FALSE))
      [] OTHER -> Raises

\* mutant of DefaultParsers: the OCC parser is registered before the OTC one
DefaultParsersOccFirst ==
    <<"USOCCParser", "OTCParser", "HKHKATSParser", "USLongFormatParser">>

\* _init_default_parsers: the registration order
DefaultParsers ==
    <<"OTCParser", "USOCCParser", "HKHKATSParser", "USLongFormatParser">>

\* ParserRegistry.parse: the result of the first parser that claims the code
\* and does not raise, UNPARSEABLE if there is none
RECURSIVE RegistryParse(_, _)
RegistryParse(parsers, code) ==
    IF parsers = <<>> THEN Unparseable(code)
    ELSE IF CanParse(Head(parsers), code)
              /\ ~ParserParse(Head(parsers), code).raises
         THEN ParserParse(Head(parsers), code).value
         ELSE RegistryParse(Tail(parsers), code)

\* parse_option: the global registry with the default parsers
ParseOption(code) == RegistryParse(DefaultParsers, code)

-----------------------------------------------------------------------------
(* Cross-broker price optimization: _optimize_cross_broker_pricing of       *)
(* src/src/broker_processor.py, on Position objects                         *)

\* most brokers in one call
MaxBrokers == 3

\* a Position as BrokerStatementProcessor builds it (line 623): final_price
\* None, final_price_source '', optimized_price_currency 'USD'.
\* __post_init__ fills the option fields from parse_option(stock_code) unless
\* the code is UNPARSEABLE, and the multiplier if the broker gave none
Position(stock_code, raw_description, holding, broker_price, price_currency, multiplier) ==
    LET parsed == ParseOption(stock_code)
        is_option == parsed.format_type # "UNPARSEABLE"
    IN  [stock_code |-> stock_code, raw_description |-> raw_description,
         holding |-> holding, broker_price |-> broker_price,
         price_currency |-> price_currency,
         multiplier |-> IF is_option /\ multiplier = None
                        THEN Some(parsed.multiplier) ELSE multiplier,
         final_price |-> None, final_price_source |-> "",
         optimized_price_currency |-> "USD",
         option_format |-> IF is_option THEN Some(parsed.format_type) ELSE None,
         underlying |-> IF is_option THEN parsed.underlying ELSE None,
         expiry_date |-> IF is_option THEN parsed.expiry_date ELSE None,
         strike |-> IF is_option THEN parsed.strike ELSE None,
         option_type |-> IF is_option THEN parsed.option_type ELSE None]

\* mutant of MatchesOption: strikes 0.01 apart still match
MatchesOptionInclusive(self, other) ==
    IF self.stock_code = other.stock_code THEN TRUE
    ELSE IF self.option_format = None \/ other.option_format = None THEN FALSE
    ELSE IF self.option_format = Some("OTC") \/ other.option_format = Some("OTC")
         THEN FALSE
    ELSE /\ self.underlying = other.underlying
         /\ self.expiry_date = other.expiry_date
         /\ Abs(self.strike[1] - other.strike[1]) <= 10
         /\ self.option_type = other.option_type

\* mutant of MatchesOption: strikes up to 0.02 apart are taken as equal
MatchesOptionTwoCents(self, other) ==
    IF self.stock_code = other.stock_code THEN TRUE
    ELSE IF self.option_format = None \/ other.option_format = None THEN FALSE
    ELSE IF self.option_format = Some("UNPARSEABLE")
              \/ other.option_format = Some("UNPARSEABLE") THEN FALSE
    ELSE IF self.option_format = Some("OTC") \/ other.option_format = Some("OTC")
         THEN FALSE
    ELSE /\ self.underlying = other.underlying
         /\ self.expiry_date = other.expiry_date
         /\ Abs(self.strike[1] - other.strike[1]) < 20
         /\ self.option_type = other.option_type

\* mutant of MatchesOption: the strike difference is taken without abs
MatchesOptionNoAbs(self, other) ==
    IF self.stock_code = other.stock_code THEN TRUE
    ELSE IF self.option_format = None \/ other.option_format = None THEN FALSE
    ELSE IF self.option_format = Some("OTC") \/ other.option_format = Some("OTC")
         THEN FALSE
    ELSE /\ self.underlying = other.underlying
         /\ self.expiry_date = other.expiry_date
         /\ self.strike[1] - other.strike[1] < 10
         /\ self.option_type = other.option_type

\* matches_option
MatchesOption(self, other) ==
    IF self.stock_code = other.stock_code THEN TRUE
    ELSE IF self.option_format = None \/ other.option_format = None THEN FALSE
    ELSE IF self.option_format = Some("UNPARSEABLE")
              \/ other.option_format = Some("UNPARSEABLE") THEN FALSE
    ELSE IF self.option_format = Some("OTC") \/ other.option_format = Some("OTC")
         THEN FALSE
    ELSE /\ self.underlying = other.underlying
         /\ self.expiry_date = other.expiry_date
         /\ Abs(self.strike[1] - other.strike[1]) < 10
         /\ self.option_type = other.option_type

\* a ProcessedResult as far as the optimization reads and writes it
BrokerResult(broker_name, positions) ==
    [broker_name |-> broker_name, positions |-> positions,
     total_position_value_usd |-> 0, position_values |-> <<>>]

\* truth value of an Optional[float]: None and 0.0 are false
Truthy(x) == x # None /\ x[1] # 0

\* Python's  a or b
Or(a, b) == IF Truthy(a) THEN a ELSE b

\* get_option_multiplier(stock_code, raw_description, broker_multiplier); no
\* code of the model contains 'OTC'
OptionMultiplier(stock_code, raw_description, broker_multiplier) ==
    IF broker_multiplier # None /\ broker_multiplier[1] > 0
    THEN broker_multiplier[1]
    ELSE IF \/ IsOptionContract(stock_code)
            \/ raw_description # None /\ IsOptionContract(raw_description[1])
         THEN 100
         ELSE 1

\* mutant of AggregateSymbols: one entry per position, no deduplication
AggregateSymbolsPerPosition(rs) ==
    Flatten([i \in 1..Len(rs) |->
                [j \in 1..Len(rs[i].positions) |->
                    rs[i].positions[j].stock_code]])

\* step 1, lines 271-280: the keys of unique_symbols in insertion order
AggregateSymbols(rs) ==
    DictKeys(Flatten([i \in 1..Len(rs) |->
                         [j \in 1..Len(rs[i].positions) |->
                             rs[i].positions[j].stock_code]]))

\* step 3, lines 313-320: every position of a priced symbol gets the price
ApplyOptimizedPrices(rs, prices) ==
    [i \in 1..Len(rs) |->
        [rs[i] EXCEPT !.positions =
            [j \in 1..Len(rs[i].positions) |->
                LET position == rs[i].positions[j]
                IN  IF position.stock_code \in DOMAIN prices
                    THEN [position EXCEPT
                             !.final_price = Some(prices[position.stock_code].price),
                             !.final_price_source = prices[position.stock_code].source,
                             !.optimized_price_currency =
                                 prices[position.stock_code].currency]
                    ELSE position]]]

\* step 4, lines 339-364, for one position: the price used, or None
PriceUsed(position) == Or(position.final_price, position.broker_price)

PositionValue(position) ==
    IF PriceUsed(position) = None THEN 0
    ELSE PriceUsed(position)[1] * position.holding
             * OptionMultiplier(position.stock_code, position.raw_description,
                                position.multiplier)

\* mutant of FinalizePosition: the broker's price is not used
FinalizePositionNoFallback(position) == position

\* step 4, lines 339-364: the position as the loop leaves it
FinalizePosition(position) ==
    IF PriceUsed(position) = None THEN position
    ELSE [position EXCEPT
             !.final_price = PriceUsed(position),
             !.final_price_source =
                 IF Truthy(position.final_price)
                 THEN position.final_price_source ELSE "Broker",
             !.optimized_price_currency =
                 IF Truthy(position.final_price)
                 THEN position.optimized_price_currency
                 ELSE position.price_currency]

\* mutant of RecalculateBroker: the value is added to the stored total
RecalculateBrokerAccumulates(broker_result) ==
    IF broker_result.positions = <<>> THEN broker_result
    ELSE LET n == Len(broker_result.positions)
             total == broker_result.total_position_value_usd
                          + SumSeq([j \in 1..n |->
                                       PositionValue(broker_result.positions[j])])
             successful ==
                 Cardinality({j \in 1..n :
                                 PriceUsed(broker_result.positions[j]) # None})
         IN  [broker_result EXCEPT
                 !.positions = [j \in 1..n |-> FinalizePosition(@[j])],
                 !.total_position_value_usd = total,
                 !.position_values =
                     [successful_prices |-> successful,
                      failed_prices |-> n - successful,
                      total_value_usd |-> total]]

\* step 4, lines 323-374, for one broker
RecalculateBroker(broker_result) ==
    IF broker_result.positions = <<>> THEN broker_result
    ELSE LET n == Len(broker_result.positions)
             total == SumSeq([j \in 1..n |->
                                 PositionValue(broker_result.positions[j])])
             successful ==
                 Cardinality({j \in 1..n :
                                 PriceUsed(broker_result.positions[j]) # None})
         IN  [broker_result EXCEPT
                 !.positions = [j \in 1..n |-> FinalizePosition(@[j])],
                 !.total_position_value_usd = total,
                 !.position_values =
                     [successful_prices |-> successful,
                      failed_prices |-> n - successful,
                      total_value_usd |-> total]]

\* the engine of the trade-confirmation run is not in use
EngineIdle ==
    /\ tc_files = <<>>
    /\ fi = 1
    /\ all_transactions = <<>>
    /\ transactions = <<>>
    /\ broker_txns = <<>>
    /\ ri = 1
    /\ ti = 1
    /\ error = ""
    /\ base = <<>>
    /\ applied = <<>>
    /\ price_failures = <<>>
    /\ saved = None

engineVars == <<tc_files, fi, all_transactions, transactions, broker_txns, ri,
                ti, error, base, applied, price_failures, saved>>

ApplePosition(h, bp) == Position(AAPL, Some(AppleInc), h, bp, "USD", None)
CliPosition(h, bp) == Position(CliHkats, Some(CliHkats), h, bp, "HKD", Some(1000))

OptPositionLists ==
    {<<>>,
     <<ApplePosition(2, Some(150))>>,
     <<ApplePosition(1, Some(151))>>,
     <<ApplePosition(2, None), CliPosition(1, Some(3))>>,
     <<CliPosition(-1, None), ApplePosition(1, Some(0))>>,
     <<ApplePosition(1, Some(150)), ApplePosition(2, Some(150))>>}

OptSymbols == {AAPL, CliHkats}

OptResultLists ==
    UNION {{[i \in 1..n |-> BrokerResult(<<"B", i>>, ps[i])] :
               ps \in [1..n -> OptPositionLists]} : n \in 1..MaxBrokers}

\* _optimize_cross_broker_pricing is called on freshly built results; the
\* price source answers every query for one symbol in one way
InitOpt ==
    /\ pc = "aggregate"
    /\ results \in OptResultLists
    /\ responses \in [OptSymbols -> PriceResponses]
    /\ run = 1
    /\ first_run = <<>>
    /\ optimized_prices = <<>>
    /\ unique_symbols = <<>>
    /\ si = 1
    /\ queried = <<>>
    /\ EngineIdle
    /\ CallIdle
    /\ ServiceIdle

\* step 1, lines 271-282
Aggregate ==
    /\ pc = "aggregate"
    /\ unique_symbols' = AggregateSymbols(results)
    /\ optimized_prices' = <<>>
    /\ si' = 1
    /\ pc' = "query"
    /\ UNCHANGED <<results, queried, responses, run, first_run>>
    /\ UNCHANGED <<engineVars, callVars, serviceVars>>

\* step 2, lines 287-310: one round of the loop; an invalid price and an
\* exception leave optimized_prices alone and the loop goes on
QueryPrice ==
    /\ pc = "query"
    /\ si <= Len(unique_symbols)
    /\ LET symbol == unique_symbols[si]
           resp == responses[symbol]
       IN  /\ queried' = Append(queried, symbol)
           /\ optimized_prices' =
                  IF ValidQuote(resp)
                  THEN [s \in DOMAIN optimized_prices \cup {symbol} |->
                           IF s = symbol
                           THEN [price |-> resp.price[1], source |-> "Futu",
                                 currency |-> resp.currency]
                           ELSE optimized_prices[s]]
                  ELSE optimized_prices
    /\ si' = si + 1
    /\ UNCHANGED <<pc, results, unique_symbols, responses, run, first_run>>
    /\ UNCHANGED <<engineVars, callVars, serviceVars>>

\* step 3, lines 313-320
UpdatePositions ==
    /\ pc = "query"
    /\ si > Len(unique_symbols)
    /\ results' = ApplyOptimizedPrices(results, optimized_prices)
    /\ pc' = "recalculate"
    /\ UNCHANGED <<unique_symbols, si, queried, optimized_prices, responses,
                   run, first_run>>
    /\ UNCHANGED <<engineVars, callVars, serviceVars>>

\* step 4, lines 323-377
Recalculate ==
    /\ pc = "recalculate"
    /\ results' = [i \in 1..Len(results) |-> RecalculateBroker(results[i])]
    /\ pc' = "optimized"
    /\ UNCHANGED <<unique_symbols, si, queried, optimized_prices, responses,
                   run, first_run>>
    /\ UNCHANGED <<engineVars, callVars, serviceVars>>

\* the optimization is called a second time on its own output
OptimizeAgain ==
    /\ pc = "optimized"
    /\ run = 1
    /\ first_run' = results
    /\ run' = 2
    /\ queried' = <<>>
    /\ pc' = "aggregate"
    /\ UNCHANGED <<results, unique_symbols, si, optimized_prices, responses>>
    /\ UNCHANGED <<engineVars, callVars, serviceVars>>

NextOpt ==
    \/ Aggregate
    \/ QueryPrice
    \/ UpdatePositions
    \/ Recalculate
    \/ OptimizeAgain

SpecOpt == InitOpt /\ [][NextOpt]_vars

-----------------------------------------------------------------------------
\* the positions of all brokers, as pairs <<broker index, position index>>
AllPositions ==
    UNION {{<<i, j>> : j \in 1..Len(results[i].positions)} :
              i \in 1..Len(results)}

PositionAt(ij) == results[ij[1]].positions[ij[2]]

HeldCodes == {PositionAt(ij).stock_code : ij \in AllPositions}

\* each distinct stock code held has been queried exactly once, nothing else
QueriedOncePerCode ==
    /\ \A code \in HeldCodes :
           Cardinality({n \in 1..Len(queried) : queried[n] = code}) = 1
    /\ \A n \in 1..Len(queried) : queried[n] \in HeldCodes

-----------------------------------------------------------------------------
(* C14  Cross-broker price optimization is idempotent: a second run on the  *)
(* output of the first, with the same answers of the price source, leaves   *)
(* every position's final_price, final_price_source and                     *)
(* optimized_price_currency and every broker's total_position_value_usd,    *)
(* successful_prices and failed_prices as the first run left them.          *)
C14_Idempotent ==
    (pc = "optimized" /\ run = 2) =>
        /\ Len(results) = Len(first_run)
        /\ \A i \in 1..Len(results) :
               /\ Len(results[i].positions) = Len(first_run[i].positions)
               /\ \A j \in 1..Len(results[i].positions) :
                      LET now == results[i].positions[j]
                          was == first_run[i].positions[j]
                      IN  /\ now.final_price = was.final_price
                          /\ now.final_price_source = was.final_price_source
                          /\ now.optimized_price_currency =
                                 was.optimized_price_currency
               /\ results[i].total_position_value_usd =
                      first_run[i].total_position_value_usd
               /\ results[i].position_values = first_run[i].position_values

\* the second run has ended on brokers with a position priced by the source,
\* one priced by its broker and one without any price
C14_Witness ==
    /\ pc = "optimized"
    /\ run = 2
    /\ \E a, b, c \in AllPositions :
           /\ PositionAt(a).final_price_source = "Futu"
           /\ PositionAt(b).final_price_source = "Broker"
           /\ PositionAt(b).final_price # Some(0)
           /\ PositionAt(c).final_price = None
    /\ \E i \in 1..Len(results) : results[i].total_position_value_usd # 0

-----------------------------------------------------------------------------
\* the price the claim gives a position: the queried one if the query for
\* its code gave a valid price, otherwise the broker's (None if it has none)
ExpectedPrice(position) ==
    IF ValidQuote(responses[position.stock_code])
    THEN responses[position.stock_code].price
    ELSE position.broker_price

ExpectedValue(position) ==
    IF ExpectedPrice(position) = None THEN 0
    ELSE ExpectedPrice(position)[1] * position.holding
             * OptionMultiplier(position.stock_code, position.raw_description,
                                position.multiplier)

(* C15  A failed price query is non-fatal: when the query for one           *)
(* instrument gives no valid price or raises, every remaining instrument    *)
(* is still queried and the optimization completes; each position of the    *)
(* failed instrument is valued at its broker_price if it has one and is     *)
(* otherwise counted in failed_prices; for every broker with positions      *)
(* successful_prices + failed_prices is its number of positions.            *)
C15_FailedQueryNonFatal ==
    /\ pc \in {"query", "recalculate", "optimized"} =>
           /\ si <= Len(unique_symbols) + 1
           /\ queried = SubSeq(unique_symbols, 1, si - 1)
    /\ pc \in {"recalculate", "optimized"} => QueriedOncePerCode
    /\ pc = "optimized" =>
           \A i \in 1..Len(results) :
               results[i].positions # <<>> =>
                   LET ps == results[i].positions
                       failed == {j \in 1..Len(ps) : ExpectedPrice(ps[j]) = None}
                   IN  /\ \A j \in 1..Len(ps) :
                              ~ValidQuote(responses[ps[j].stock_code]) =>
                                  /\ ps[j].final_price = ps[j].broker_price
                                  /\ ps[j].broker_price # None =>
                                         ps[j].final_price_source = "Broker"
                       /\ results[i].position_values.failed_prices =
                              Cardinality(failed)
                       /\ results[i].position_values.successful_prices
                              + results[i].position_values.failed_prices = Len(ps)
                       /\ results[i].total_position_value_usd =
                              SumSeq([j \in 1..Len(ps) |-> ExpectedValue(ps[j])])

\* the first query raised, the second gave a price, and one broker holds the
\* failed instrument once with a broker price and another without
C15_Witness ==
    /\ pc = "optimized"
    /\ run = 1
    /\ Len(queried) = 2
    /\ responses[queried[1]] = QuoteRaises
    /\ ValidQuote(responses[queried[2]])
    /\ \E a, b \in AllPositions :
           /\ PositionAt(a).stock_code = queried[1]
           /\ PositionAt(a).broker_price \notin {None, Some(0)}
           /\ PositionAt(b).stock_code = queried[1]
           /\ PositionAt(b).broker_price = None

-----------------------------------------------------------------------------
(* Position.matches_option on two positions built from code strings *)

CliParen == Code("HKPAREN", "CLI", "", <<2026, 6, 29>>, "CALL", 20000)
SbetOcc == Code("OCC", "SBET", "", <<26, 1, 16>>, "P", 41000)
SbetLong == Code("TCLONG", "SBET", "US", <<26, 1, 16>>, "P", 41)
OtcText == Code("OTC", "OTC-0388", "", <<0, 0, 0>>, "", 0)

MatchCodes ==
    {AAPL, AppleInc, CliHkats, CliParen, CliOcc, CliLong, SbetOcc, SbetLong, OtcText,
     \* strikes 20.005 and 20.01
     Code("HKATS", "CLI", "", <<26, 6, 29>>, "CALL", 20005),
     Code("HKATS", "CLI", "", <<26, 6, 29>>, "CALL", 20010),
     \* strike 20.025
     Code("HKATS", "CLI", "", <<26, 6, 29>>, "CALL", 20025),
     \* the put, a later expiry, another underlying
     Code("HKATS", "CLI", "", <<26, 6, 29>>, "PUT", 20000),
     Code("HKATS", "CLI", "", <<26, 7, 30>>, "CALL", 20000),
     Code("HKATS", "XYZ", "", <<26, 6, 29>>, "CALL", 20000),
     \* the ticker is the word OTC
     Code("OCC", "OTC", "", <<26, 6, 29>>, "C", 20000),
     Code("HKATS", "OTC", "", <<26, 6, 29>>, "CALL", 20000),
     \* June 31st
     Code("OCC", "CLI", "", <<26, 6, 31>>, "C", 20000),
     Code("HKATS", "CLI", "", <<26, 6, 31>>, "CALL", 20000)}

PositionOf(code) == Position(code, None, 1, None, None, None)

\* no trade-confirmation run and no price optimization is under way
OnlyCall ==
    /\ results = <<>>
    /\ unique_symbols = <<>>
    /\ si = 1
    /\ queried = <<>>
    /\ EngineIdle
    /\ OptIdle

InitMatch ==
    /\ pc = "match"
    /\ arg \in {<<PositionOf(a), PositionOf(b)>> : a, b \in MatchCodes}
    /\ ret = None
    /\ tried = <<>>
    /\ OnlyCall
    /\ ServiceIdle

\* arg[1].matches_option(arg[2])
CallMatchesOption ==
    /\ pc = "match"
    /\ ret' = Some(MatchesOption(arg[1], arg[2]))
    /\ pc' = "matched"
    /\ UNCHANGED <<arg, tried, results, unique_symbols, si, queried>>
    /\ UNCHANGED <<engineVars, optVars, serviceVars>>

NextMatch == CallMatchesOption

SpecMatch == InitMatch /\ [][NextMatch]_vars

\* the code string parses as an option of a standard format
StandardOption(code) == ParseOption(code).format_type \in {"US_OCC", "HK_HKATS"}

(* C16  Position equivalence: a.matches_option(b) is true iff the two       *)
(* stock_code strings are identical, or both positions parsed as non-OTC    *)
(* options with equal underlying, expiry date and option type and strikes   *)
(* less than 0.01 apart; so an equity, unparsed or OTC position matches     *)
(* only on identical code, and 'CLI 260629 20.00 CALL' matches              *)
(* '(CLI.HK 20260629 CALL 20.0)'.                                           *)
C16_MatchesOptionRule ==
    /\ pc = "matched" =>
           LET a == arg[1].stock_code
               b == arg[2].stock_code
               pa == ParseOption(a)
               pb == ParseOption(b)
           IN  /\ ret[1] <=>
                      \/ a = b
                      \/ /\ StandardOption(a) /\ StandardOption(b)
                         /\ pa.underlying = pb.underlying
                         /\ pa.expiry_date = pb.expiry_date
                         /\ pa.option_type = pb.option_type
                         /\ Abs(pa.strike[1] - pb.strike[1]) < 10
               /\ (~StandardOption(a) \/ ~StandardOption(b)) => (ret[1] <=> a = b)
    /\ MatchesOption(PositionOf(CliHkats), PositionOf(CliParen))

\* the two HK forms of one contract have been compared
C16_Witness ==
    /\ pc = "matched"
    /\ arg[1].stock_code = CliHkats
    /\ arg[2].stock_code = CliParen
    /\ ret = Some(TRUE)

(* C17  Equivalence symmetry: a.matches_option(b) equals                    *)
(* b.matches_option(a) for all pairs of positions, equities, unparsed       *)
(* codes, OTC and standard options alike.                                   *)
C17_MatchesOptionSymmetric ==
    pc = "matched" => (ret[1] <=> MatchesOption(arg[2], arg[1]))

\* an OCC code and an HKATS code of one contract have been compared
C17_Witness ==
    /\ pc = "matched"
    /\ arg[1].option_format = Some("US_OCC")
    /\ arg[2].option_format = Some("HK_HKATS")
    /\ ret = Some(TRUE)

-----------------------------------------------------------------------------
(* ParserRegistry.parse as the loop it is, on registries of the parser      *)
(* classes of the module and two test doubles                               *)

\* most parsers registered besides the default ones
MaxParsers == 2

ParserUniverse ==
    {"OTCParser", "USOCCParser", "HKHKATSParser", "USLongFormatParser",
     "HKNumericParser", StubParses, StubRaises}

\* a registry filled by register() alone, and the global registry with
\* further parsers registered behind the default ones
Registries ==
    SeqsUpTo(ParserUniverse, MaxParsers)
        \cup {DefaultParsers \o more : more \in SeqsUpTo(ParserUniverse, MaxParsers)}

RegistryCodes ==
    {AAPL, CliHkats, CliParen, CliOcc, CliLong, SbetOcc, SbetLong, OtcText,
     Code("OCC", "OTC", "", <<26, 6, 29>>, "C", 20000),
     Code("HKATS", "OTC", "", <<26, 6, 29>>, "CALL", 20000),
     Code("TCLONG", "OTC", "US", <<26, 6, 29>>, "C", 20),
     Code("OCC", "EURO", "", <<26, 1, 16>>, "P", 41000),
     Code("OCC", "GOOGL", "", <<26, 1, 16>>, "P", 41000),
     Code("OCC", "SBET", "", <<26, 1, 16>>, "P", 141000),
     Code("OCC", "CLI", "", <<26, 6, 31>>, "C", 20000),
     Code("HKATS", "CLI", "", <<26, 6, 31>>, "CALL", 20000),
     Code("TCLONG", "SBET", "US", <<26, 2, 30>>, "P", 41),
     Code("TCLONG", "2628", "HK", <<26, 6, 29>>, "C", 20),
     Code("TCLONG", "2318", "C1", <<26, 6, 29>>, "C", 20)}

InitRegistry ==
    /\ pc = "parse_option"
    /\ arg \in [parsers : Registries, code : RegistryCodes]
    /\ ret = None
    /\ tried = <<>>
    /\ OnlyCall
    /\ ServiceIdle

\* the parser the for loop is at
CurParser == arg.parsers[Len(tried) + 1]

\* mutant of LoopRound: an exception of a parser ends the loop
LoopRoundStopsOnRaise(parser, code) ==
    IF ~CanParse(parser, code) THEN None
    ELSE IF ParserParse(parser, code).raises THEN Some(Unparseable(code))
    ELSE Some(ParserParse(parser, code).value)

\* lines 123-129, one round of the loop: the value returned, None when the
\* loop goes on
LoopRound(parser, code) ==
    IF ~CanParse(parser, code) THEN None
    ELSE IF ParserParse(parser, code).raises THEN None
    ELSE Some(ParserParse(parser, code).value)

Round(claims, raises) ==
    /\ tried' = Append(tried, [parser |-> CurParser, claims |-> claims,
                               raises |-> raises])
    /\ ret' = LoopRound(CurParser, arg.code)
    /\ pc' = IF LoopRound(CurParser, arg.code) = None
             THEN "parse_option" ELSE "parsed"
    /\ UNCHANGED <<arg, results, unique_symbols, si, queried>>
    /\ UNCHANGED <<engineVars, optVars, serviceVars>>

\* line 124: can_parse is false
ParserDeclines ==
    /\ pc = "parse_option"
    /\ Len(tried) < Len(arg.parsers)
    /\ ~CanParse(CurParser, arg.code)
    /\ Round(FALSE, FALSE)

\* lines 125-126: the parser claims the code and parses it
ParserSucceeds ==
    /\ pc = "parse_option"
    /\ Len(tried) < Len(arg.parsers)
    /\ CanParse(CurParser, arg.code)
    /\ ~ParserParse(CurParser, arg.code).raises
    /\ Round(TRUE, FALSE)

\* lines 127-129: the parser claims the code and its parse raises
ParserFails ==
    /\ pc = "parse_option"
    /\ Len(tried) < Len(arg.parsers)
    /\ CanParse(CurParser, arg.code)
    /\ ParserParse(CurParser, arg.code).raises
    /\ Round(TRUE, TRUE)

\* lines 131-135: no parser succeeded
NoParserSucceeded ==
    /\ pc = "parse_option"
    /\ Len(tried) = Len(arg.parsers)
    /\ ret' = Some(Unparseable(arg.code))
    /\ pc' = "parsed"
    /\ UNCHANGED <<arg, tried, results, unique_symbols, si, queried>>
    /\ UNCHANGED <<engineVars, optVars, serviceVars>>

NextRegistry ==
    \/ ParserDeclines
    \/ ParserSucceeds
    \/ ParserFails
    \/ NoParserSucceeded

SpecRegistry == InitRegistry /\ [][NextRegistry]_vars

\* the registered parsers that claim the code and parse it without raising
Winners ==
    {i \in 1..Len(arg.parsers) :
        /\ CanParse(arg.parsers[i], arg.code)
        /\ ~ParserParse(arg.parsers[i], arg.code).raises}

(* C18  Parser dispatch: ParserRegistry.parse tries the parsers in          *)
(* registration order and returns the result of the first whose can_parse   *)
(* is true and whose parse does not raise; a parser that claims the code    *)
(* but raises is skipped and the next ones are still tried; if none         *)
(* succeeds the result is UNPARSEABLE with original_code the input; parse   *)
(* itself never raises.                                                     *)
C18_ParserDispatch ==
    /\ pc \in {"parse_option", "parsed"}
    /\ Len(tried) <= Len(arg.parsers)
    /\ \A n \in 1..Len(tried) :
           /\ tried[n].parser = arg.parsers[n]
           /\ tried[n].claims = CanParse(arg.parsers[n], arg.code)
           /\ n < Len(tried) => n \notin Winners
    /\ pc = "parse_option" => ret = None /\ \A n \in 1..Len(tried) : n \notin Winners
    /\ pc = "parsed" =>
           IF Winners = {}
           THEN /\ Len(tried) = Len(arg.parsers)
                /\ ret[1].format_type = "UNPARSEABLE"
                /\ ret[1].original_code = arg.code
                /\ ret[1] = Unparseable(arg.code)
           ELSE /\ Len(tried) = FirstIndex(Winners)
                /\ ret[1] = ParserParse(arg.parsers[FirstIndex(Winners)],
                                        arg.code).value
    /\ pc = "parsed" => ret[1] = RegistryParse(arg.parsers, arg.code)

\* a parser claimed the code and raised, a later one then parsed it
C18_Witness ==
    /\ pc = "parsed"
    /\ \E n \in 1..Len(tried) :
           /\ tried[n].raises
           /\ n + 1 < Len(tried)
           /\ arg.parsers[n] # StubRaises
    /\ ret[1].format_type = "STUB"

\* the word OTC occurs in the code string
ContainsOtc(code) == code.fmt = "OTC" \/ code.tk = "OTC"

(* C19  Parser priority: with the default registry, and after any further   *)
(* parsers are registered behind it, every code string containing 'OTC' is  *)
(* classified with format_type 'OTC' and never as US_OCC or HK_HKATS,       *)
(* whatever else the string contains.                                       *)
C19_OtcFirst ==
    /\ (/\ pc = "parsed"
        /\ Len(arg.parsers) >= 4
        /\ SubSeq(arg.parsers, 1, 4) = DefaultParsers
        /\ ContainsOtc(arg.code))
           => /\ ret[1].format_type = "OTC"
              /\ Len(tried) = 1
    /\ \A code \in RegistryCodes :
           ContainsOtc(code) => ParseOption(code).format_type = "OTC"

\* a code of the OCC grammar whose ticker is OTC went through a registry
\* with parsers registered behind the default ones
C19_Witness ==
    /\ pc = "parsed"
    /\ Len(arg.parsers) > 4
    /\ SubSeq(arg.parsers, 1, 4) = DefaultParsers
    /\ arg.code = Code("OCC", "OTC", "", <<26, 6, 29>>, "C", 20000)
    /\ CanParse("USOCCParser", arg.code)
    /\ ret[1].format_type = "OTC"

-----------------------------------------------------------------------------
(* USOCCParser on code strings written out as sequences of characters *)

Digits == <<"0", "1", "2", "3", "4", "5", "6", "7", "8", "9">>

IsDigit(c) == \E d \in 1..10 : Digits[d] = c
IsUpperLetter(c) ==
    c \in {"A", "B", "C", "D", "E", "F", "G", "H", "I", "J", "K", "L", "M",
           "N", "O", "P", "Q", "R", "S", "T", "U", "V", "W", "X", "Y", "Z"}

\* int() of one decimal digit
DigitValue(c) == (CHOOSE d \in 1..10 : Digits[d] = c) - 1

\* int() of a string of decimal digits
RECURSIVE ToInt(_)
ToInt(s) ==
    IF s = <<>> THEN 0
    ELSE 10 * ToInt(SubSeq(s, 1, Len(s) - 1)) + DigitValue(s[Len(s)])

\* re.match(r'^[A-Z]{1,4}\d{6}[CP]\d{5}$', code)
UsOccCanParse(code) ==
    LET n == Len(code) - 12
    IN  /\ n \in 1..4
        /\ \A i \in 1..n : IsUpperLetter(code[i])
        /\ \A i \in (n + 1)..(n + 6) : IsDigit(code[i])
        /\ code[n + 7] \in {"C", "P"}
        /\ \A i \in (n + 8)..(n + 12) : IsDigit(code[i])

\* mutant of UsOccParse: the strike field is divided by 100
UsOccParsePerHundred(code) ==
    LET n == Len(code) - 12
        year == 2000 + ToInt(SubSeq(code, n + 1, n + 2))
        month == ToInt(SubSeq(code, n + 3, n + 4))
        day == ToInt(SubSeq(code, n + 5, n + 6))
    IN  IF ValidDate(year, month, day)
        THEN Returns(ParsedOption("US_OCC", code, Some(SubSeq(code, 1, n)),
                                  Some(<<year, month, day>>),
                                  Some(10 * ToInt(SubSeq(code, n + 8, n + 12))),
                                  Some(CallOrPut(code[n + 7])),
                                  100, "USD", None, FALSE))
        ELSE Raises

\* USOCCParser.parse for a code can_parse accepts; the strike
\* int(strike_int) / 1000.0 is kept in thousandths
UsOccParse(code) ==
    LET n == Len(code) - 12
        year == 2000 + ToInt(SubSeq(code, n + 1, n + 2))
        month == ToInt(SubSeq(code, n + 3, n + 4))
        day == ToInt(SubSeq(code, n + 5, n + 6))
    IN  IF ValidDate(year, month, day)
        THEN Returns(ParsedOption("US_OCC", code, Some(SubSeq(code, 1, n)),
                                  Some(<<year, month, day>>),
                                  Some(ToInt(SubSeq(code, n + 8, n + 12))),
                                  Some(CallOrPut(code[n + 7])),
                                  100, "USD", None, FALSE))
        ELSE Raises

OccTickers ==
    {<<"S">>, <<"C", "P">>, <<"S", "B", "E", "T">>, <<"G", "O", "O", "G", "L">>}
OccDates ==
    {<<"2", "6", "0", "1", "1", "6">>, <<"0", "0", "0", "2", "2", "9">>,
     <<"2", "6", "0", "1", "0", "6">>, <<"9", "9", "1", "2", "3", "1">>,
     <<"2", "6", "0", "6", "3", "1">>, <<"2", "6", "1", "3", "0", "1">>}
OccTypes == {<<"C">>, <<"P">>, <<"X">>}
OccStrikes ==
    {<<"4", "1", "0", "0", "0">>, <<"0", "0", "5", "0", "0">>,
     <<"0", "0", "0", "0", "0">>, <<"9", "9", "9", "9", "9">>,
     <<"0", "2", "0", "1", "0">>, <<"1", "4", "1", "0", "0", "0">>}

OccCodes ==
    {tk \o d \o cp \o k :
        tk \in OccTickers, d \in OccDates, cp \in OccTypes, k \in OccStrikes}

InitOcc ==
    /\ pc = "occ"
    /\ arg \in OccCodes
    /\ ret = None
    /\ tried = <<>>
    /\ OnlyCall
    /\ ServiceIdle

\* can_parse is false: the registry does not call parse
OccDeclined ==
    /\ pc = "occ"
    /\ ~UsOccCanParse(arg)
    /\ pc' = "occ_declined"
    /\ UNCHANGED <<arg, ret, tried, results, unique_symbols, si, queried>>
    /\ UNCHANGED <<engineVars, optVars, serviceVars>>

\* parse returns a ParsedOption
OccParsed ==
    /\ pc = "occ"
    /\ UsOccCanParse(arg)
    /\ ~UsOccParse(arg).raises
    /\ ret' = Some(UsOccParse(arg).value)
    /\ pc' = "occ_parsed"
    /\ UNCHANGED <<arg, tried, results, unique_symbols, si, queried>>
    /\ UNCHANGED <<engineVars, optVars, serviceVars>>

\* date(year, month, day) raises ValueError
OccRaised ==
    /\ pc = "occ"
    /\ UsOccCanParse(arg)
    /\ UsOccParse(arg).raises
    /\ pc' = "occ_raised"
    /\ UNCHANGED <<arg, ret, tried, results, unique_symbols, si, queried>>
    /\ UNCHANGED <<engineVars, optVars, serviceVars>>

NextOcc ==
    \/ OccDeclined
    \/ OccParsed
    \/ OccRaised

SpecOcc == InitOcc /\ [][NextOcc]_vars

\* format(n, '0<width>d')
RECURSIVE ZeroPadded(_, _)
ZeroPadded(n, width) ==
    IF n < 10 /\ width <= 1 THEN <<Digits[n + 1]>>
    ELSE Append(ZeroPadded(n \div 10, width - 1), Digits[(n % 10) + 1])

\* the parsed fields written as TICKER + YYMMDD + C|P + strike * 1000 in five
\* digits
FormatOcc(parsed) ==
    parsed.underlying[1]
        \o ZeroPadded(parsed.expiry_date[1][1] % 100, 2)
        \o ZeroPadded(parsed.expiry_date[1][2], 2)
        \o ZeroPadded(parsed.expiry_date[1][3], 2)
        \o <<IF parsed.option_type[1] = "CALL" THEN "C" ELSE "P">>
        \o ZeroPadded(parsed.strike[1], 5)

\* the code is of the US_OCC grammar with a date of the calendar
OccGrammar(code) ==
    \E tk \in OccTickers, d \in OccDates, cp \in {<<"C">>, <<"P">>},
       k \in OccStrikes :
        /\ code = tk \o d \o cp \o k
        /\ Len(tk) <= 4
        /\ Len(k) = 5
        /\ ValidDate(2000 + ToInt(SubSeq(d, 1, 2)), ToInt(SubSeq(d, 3, 4)),
                     ToInt(SubSeq(d, 5, 6)))

-----------------------------------------------------------------------------
(* The HKATS resolver: resolve_hk_numeric_to_hkats on character strings *)

MaxQueries == 2

\* str.lstrip('0')
RECURSIVE LStripZeros(_)
LStripZeros(s) == IF s # <<>> /\ Head(s) = "0" THEN LStripZeros(Tail(s)) ELSE s

\* str.startswith(prefix)
StartsWith(s, prefix) ==
    Len(s) >= Len(prefix) /\ SubSeq(s, 1, Len(prefix)) = prefix

\* str.isdigit()
AllDigits(s) == s # <<>> /\ \A i \in 1..Len(s) : IsDigit(s[i])

HkPrefix == <<"H", "K", ".">>

\* code = numeric_code.strip().upper() without a leading 'HK.'
StrippedCode(numeric_code) ==
    LET code == Upper(Strip(numeric_code))
    IN  IF StartsWith(code, HkPrefix) THEN SubSeq(code, 4, Len(code)) ELSE code

\* the input is empty or not digits only: ValueError
InvalidNumericCode(numeric_code) ==
    numeric_code = <<>> \/ ~AllDigits(StrippedCode(numeric_code))

\* mutant of NormalizedKey: the digits are used as the key as they are written
NormalizedKeyAsWritten(numeric_code) ==
    StrippedCode(numeric_code)

\* normalized_key = f"{int(code):05d}"
NormalizedKey(numeric_code) ==
    ZeroPadded(ToInt(StrippedCode(numeric_code)), 5)

\* what is returned when no option chain is found:
\* numeric_code.strip().lstrip('0') or '0'
DegradedCode(numeric_code) ==
    LET s == LStripZeros(Strip(numeric_code))
    IN  IF s = <<>> THEN <<"0">> ELSE s

\* the group of re.match(r'^HK\.([A-Z]+)', option_code): None without a match
RECURSIVE LetterPrefix(_)
LetterPrefix(s) ==
    IF s # <<>> /\ IsUpperLetter(Head(s))
    THEN <<Head(s)>> \o LetterPrefix(Tail(s))
    ELSE <<>>

\* the first option code of the chain gives an HKATS code
UsableOptionCode(option_code) ==
    /\ StartsWith(option_code, HkPrefix)
    /\ LetterPrefix(SubSeq(option_code, 4, Len(option_code))) # <<>>

HkatsOf(option_code) == LetterPrefix(SubSeq(option_code, 4, Len(option_code)))

\* the strings resolve is called with
NumericCodes ==
    {<<>>,
     <<"2", "6", "2", "8">>,
     <<"0", "2", "6", "2", "8">>,
     <<"0", "0", "2", "6", "2", "8">>,
     <<"H", "K", ".", "0", "2", "6", "2", "8">>,
     <<"h", "k", ".", "2", "6", "2", "8">>,
     <<" ", "2", "6", "2", "8", " ">>,
     <<"0", "0", "0", "0">>,
     <<"7", "0", "0">>,
     <<"H", "K", ".", "0", "0", "7", "0", "0">>,
     <<"C", "L", "I">>,
     <<"H", "K", ".">>}

\* data.iloc[0].get('code') of the chains the option-chain source may return
OptionCodes ==
    {<<"H", "K", ".", "C", "L", "I", "2", "5", "0", "9">>,
     <<"H", "K", ".", "T", "C", "H", "2", "5", "0", "9">>,
     <<"U", "S", ".", "C", "L", "I", "2", "5", "0", "9">>,
     <<"H", "K", ".", "2", "6", "2", "8">>}

\* a new processor, before the first call of resolve
InitResolver ==
    /\ pc = "resolver"
    /\ hk_code_cache = <<>>
    /\ chain_queries = <<>>
    /\ rate_cache = <<>>
    /\ cache_file = None
    /\ api_calls = <<>>
    /\ CallIdle
    /\ OnlyCall

\* what every call of resolve leaves alone
ResolverFrame ==
    /\ UNCHANGED <<tried, results, unique_symbols, si, queried>>
    /\ UNCHANGED <<engineVars, optVars, rate_cache, cache_file, api_calls>>

\* the input is empty or not numeric: ValueError
ResolveRejects(numeric_code) ==
    /\ InvalidNumericCode(numeric_code)
    /\ pc' = "rejected"
    /\ arg' = numeric_code
    /\ ret' = Raises
    /\ UNCHANGED <<hk_code_cache, chain_queries>>
    /\ ResolverFrame

\* the key is in the cache
ResolveCached(numeric_code) ==
    /\ ~InvalidNumericCode(numeric_code)
    /\ NormalizedKey(numeric_code) \in DOMAIN hk_code_cache
    /\ pc' = "cached"
    /\ arg' = numeric_code
    /\ ret' = Returns(hk_code_cache[NormalizedKey(numeric_code)])
    /\ UNCHANGED <<hk_code_cache, chain_queries>>
    /\ ResolverFrame

\* the SDK is not installed or the connection fails: RuntimeError
ResolveUnavailable(numeric_code) ==
    /\ ~InvalidNumericCode(numeric_code)
    /\ NormalizedKey(numeric_code) \notin DOMAIN hk_code_cache
    /\ pc' = "unavailable"
    /\ arg' = numeric_code
    /\ ret' = Raises
    /\ UNCHANGED <<hk_code_cache, chain_queries>>
    /\ ResolverFrame

\* get_option_chain gives no data: the degraded numeric result
ResolveNoChain(numeric_code) ==
    /\ ~InvalidNumericCode(numeric_code)
    /\ NormalizedKey(numeric_code) \notin DOMAIN hk_code_cache
    /\ Len(chain_queries) < MaxQueries
    /\ pc' = "no_chain"
    /\ arg' = numeric_code
    /\ ret' = Returns(DegradedCode(numeric_code))
    /\ chain_queries' = Append(chain_queries, NormalizedKey(numeric_code))
    /\ UNCHANGED hk_code_cache
    /\ ResolverFrame

\* the first option code of the chain has no 'HK.' + letters: RuntimeError
ResolveBadChain(numeric_code, option_code) ==
    /\ ~InvalidNumericCode(numeric_code)
    /\ NormalizedKey(numeric_code) \notin DOMAIN hk_code_cache
    /\ Len(chain_queries) < MaxQueries
    /\ ~UsableOptionCode(option_code)
    /\ pc' = "bad_chain"
    /\ arg' = numeric_code
    /\ ret' = Raises
    /\ chain_queries' = Append(chain_queries, NormalizedKey(numeric_code))
    /\ UNCHANGED hk_code_cache
    /\ ResolverFrame

\* the chain gives an HKATS code: it is cached and returned
ResolveMapped(numeric_code, option_code) ==
    /\ ~InvalidNumericCode(numeric_code)
    /\ NormalizedKey(numeric_code) \notin DOMAIN hk_code_cache
    /\ Len(chain_queries) < MaxQueries
    /\ UsableOptionCode(option_code)
    /\ pc' = "mapped"
    /\ arg' = numeric_code
    /\ ret' = Returns(HkatsOf(option_code))
    /\ chain_queries' = Append(chain_queries, NormalizedKey(numeric_code))
    /\ hk_code_cache' =
           [k \in DOMAIN hk_code_cache \cup {NormalizedKey(numeric_code)} |->
               IF k = NormalizedKey(numeric_code) THEN HkatsOf(option_code)
               ELSE hk_code_cache[k]]
    /\ ResolverFrame

NextResolver ==
    \/ \E numeric_code \in NumericCodes : ResolveRejects(numeric_code)
    \/ \E numeric_code \in NumericCodes : ResolveCached(numeric_code)
    \/ \E numeric_code \in NumericCodes : ResolveUnavailable(numeric_code)
    \/ \E numeric_code \in NumericCodes : ResolveNoChain(numeric_code)
    \/ \E numeric_code \in NumericCodes, option_code \in OptionCodes :
           ResolveBadChain(numeric_code, option_code)
    \/ \E numeric_code \in NumericCodes, option_code \in OptionCodes :
           ResolveMapped(numeric_code, option_code)

SpecResolver == InitResolver /\ [][NextResolver]_vars

\* the value of the numeric code a valid input spells
NumericValue(numeric_code) == ToInt(StrippedCode(numeric_code))

\* the last call returned an HKATS letter code
ReturnedLetters ==
    /\ pc \in {"cached", "mapped"}
    /\ ~ret.raises

(* C21  HKATS resolver cache: once resolve has returned a letter code for a  *)
(* numeric code, every later call for any spelling of the same code (bare    *)
(* digits, zero-padded, 'HK.'-prefixed) returns that letter code without     *)
(* querying the option-chain source again, and a cached mapping is never     *)
(* removed or changed. Stated step by step: a returned letter code is the    *)
(* cached one of every spelling of the code; a step keeps every cached       *)
(* mapping; and a call for a spelling of a cached code returns the cached    *)
(* letters and asks no query.                                                *)
C21_ResolverCache ==
    [][/\ \A k \in DOMAIN hk_code_cache :
              k \in DOMAIN hk_code_cache' /\ hk_code_cache'[k] = hk_code_cache[k]
       /\ (pc' \in {"cached", "mapped"}) =>
              \A other \in NumericCodes :
                  (~InvalidNumericCode(other)
                       /\ NumericValue(other) = NumericValue(arg')) =>
                      /\ NormalizedKey(other) \in DOMAIN hk_code_cache'
                      /\ hk_code_cache'[NormalizedKey(other)] = ret'.value
       /\ \A earlier \in NumericCodes :
              (/\ ~InvalidNumericCode(earlier)
               /\ ~InvalidNumericCode(arg')
               /\ NumericValue(earlier) = NumericValue(arg')
               /\ NormalizedKey(earlier) \in DOMAIN hk_code_cache) =>
                  /\ ret' = Returns(hk_code_cache[NormalizedKey(earlier)])
                  /\ chain_queries' = chain_queries]_vars

\* 2628 was mapped by one query, and the call for 'HK.02628' that followed
\* was answered from the cache
C21_Witness ==
    /\ pc = "cached"
    /\ arg = <<"H", "K", ".", "0", "2", "6", "2", "8">>
    /\ ret = Returns(<<"C", "L", "I">>)
    /\ chain_queries = <<<<"0", "2", "6", "2", "8">>>>
    /\ DOMAIN hk_code_cache = {<<"0", "2", "6", "2", "8">>}

(* C22  Degraded resolution is detectable: when the option-chain source has  *)
(* no chain for a code, resolve does not raise and returns a string of       *)
(* digits only, for bare-digit input and for 'HK.'-prefixed input alike.     *)
C22_DegradedIsNumeric ==
    pc = "no_chain" => ~ret.raises /\ AllDigits(ret.value)

-----------------------------------------------------------------------------
(* DataPersistence.save_broker_data: the MMF reclassification *)

LowerLetters ==
    <<"a", "b", "c", "d", "e", "f", "g", "h", "i", "j", "k", "l", "m",
      "n", "o", "p", "q", "r", "s", "t", "u", "v", "w", "x", "y", "z">>
UpperLetters ==
    <<"A", "B", "C", "D", "E", "F", "G", "H", "I", "J", "K", "L", "M",
      "N", "O", "P", "Q", "R", "S", "T", "U", "V", "W", "X", "Y", "Z">>

\* str.lower()
LowerChar(c) ==
    IF \E i \in 1..26 : UpperLetters[i] = c
    THEN LowerLetters[CHOOSE i \in 1..26 : UpperLetters[i] = c]
    ELSE c
Lower(s) == [i \in 1..Len(s) |-> LowerChar(s[i])]

\* needle in text
Contains(text, needle) ==
    \E i \in 0..(Len(text) - Len(needle)) :
        SubSeq(text, i + 1, i + Len(needle)) = needle

MoneyMarketFund ==
    <<"m", "o", "n", "e", "y", " ", "m", "a", "r", "k", "e", "t", " ",
      "f", "u", "n", "d">>

\* is_money_market_fund(description); None and '' are not
IsMoneyMarketFund(description) ==
    /\ description # None
    /\ description[1] # <<>>
    /\ Contains(Lower(description[1]), MoneyMarketFund)

\* dict.get(key, default)
DictGet(d, key, default) == IF key \in DOMAIN d THEN d[key] ELSE default

\* position.get('RawDescription', '') is the text of a money market fund
IsMmfPosition(position) ==
    IsMoneyMarketFund(DictGet(position, "RawDescription", Some(<<>>)))

\* value = holding * price with price = position.get('Price', 0)
MmfValue(position) ==
    position.Holding * DictGet(position, "Price", 0)

\* mmf_cash_adjustments[currency] after the loop over the positions
RECURSIVE MmfCashAdjustment(_, _)
MmfCashAdjustment(positions, currency) ==
    IF positions = <<>> THEN 0
    ELSE (IF /\ IsMmfPosition(Head(positions))
             /\ DictGet(Head(positions), "PriceCurrency", "USD") = currency
          THEN MmfValue(Head(positions)) ELSE 0)
         + MmfCashAdjustment(Tail(positions), currency)

\* the keys of mmf_cash_adjustments
MmfCurrencies(positions) ==
    {DictGet(positions[i], "PriceCurrency", "USD") :
        i \in {j \in 1..Len(positions) : IsMmfPosition(positions[j])}}

\* the recalculation of usd_total, with an HKD rate of 1/8 and a CNY rate
\* of 1/7 in exchange_rates
RecalculatedUsdTotal(cash_data) ==
    CashGet(cash_data, "USD") + (CashGet(cash_data, "HKD") \div 8)
        + (CashGet(cash_data, "CNY") \div 7)

\* one round of the loop 'for result in results', up to the end of the
\* reclassification
Reclassified(result) ==
    LET currencies == MmfCurrencies(result.positions)
        cash_data ==
            [c \in DOMAIN result.cash_data \cup currencies |->
                IF c \in currencies
                THEN CashGet(result.cash_data, c)
                         + MmfCashAdjustment(result.positions, c)
                ELSE result.cash_data[c]]
    IN  [result EXCEPT
            !.positions = SelectSeq(result.positions,
                                    LAMBDA p : ~IsMmfPosition(p)),
            !.cash_data = cash_data,
            !.usd_total = IF currencies # {}
                          THEN RecalculatedUsdTotal(cash_data)
                          ELSE result.usd_total]

Text(s) == Some(s)
CsopUsdMmf ==
    Text(<<"C", "S", "O", "P", " ", "U", "S", "D", " ", "M", "o", "n", "e", "y",
           " ", "M", "a", "r", "k", "e", "t", " ", "F", "u", "n", "d">>)
UpperMmf ==
    Text(<<"M", "O", "N", "E", "Y", " ", "M", "A", "R", "K", "E", "T", " ",
           "F", "U", "N", "D", " ", "A">>)
MoneyMarket ==
    Text(<<"M", "o", "n", "e", "y", " ", "M", "a", "r", "k", "e", "t">>)
AppleText == Text(<<"A", "p", "p", "l", "e", " ", "I", "n", "c">>)

\* a position in the shape of the statement extraction, with the key 'Price'
ExtractedPosition(stock_code, description, holding, price, currency) ==
    [StockCode |-> stock_code, RawDescription |-> description,
     Holding |-> holding, Price |-> price, PriceCurrency |-> currency]

SavePositionLists ==
    {<<>>,
     <<PositionDict("AAPL", AppleText, 2, 150, "USD", 1)>>,
     <<PositionDict("CSOP", CsopUsdMmf, 1000, 1, "USD", 1)>>,
     <<ExtractedPosition("CSOP", CsopUsdMmf, 1000, 1, "USD")>>,
     <<PositionDict("AAPL", AppleText, 2, 150, "USD", 1),
       ExtractedPosition("MMF", UpperMmf, 16, 2, "HKD"),
       PositionDict("MM", MoneyMarket, 5, 1, "USD", 1),
       ExtractedPosition("CSOP", CsopUsdMmf, 10, 1, "HKD")>>,
     <<PositionDict("X", None, 1, 1, "USD", 1),
       ExtractedPosition("CSOP", CsopUsdMmf, 7, 3, "CNY"),
       ExtractedPosition("T", Text(<<>>), 1, 1, "USD")>>}

SaveCash == {[USD |-> 50, HKD |-> 16], [HKD |-> 16], [USD |-> 0, EUR |-> 3]}

SaveResultLists ==
    UNION {{[i \in 1..n |-> ProcessedResult(<<"B", i>>, "U1", cs[i], ps[i],
                                            CalculateUsdTotal(cs[i]))] :
               ps \in [1..n -> SavePositionLists], cs \in [1..n -> SaveCash]} :
           n \in 0..2}

\* save_broker_data is about to be called on a result list
InitSave ==
    /\ pc = "save"
    /\ results \in SaveResultLists
    /\ base = results
    /\ saved = None
    /\ tc_files = <<>>
    /\ fi = 1
    /\ all_transactions = <<>>
    /\ transactions = <<>>
    /\ broker_txns = <<>>
    /\ ri = 1
    /\ ti = 1
    /\ error = ""
    /\ applied = <<>>
    /\ unique_symbols = <<>>
    /\ si = 1
    /\ queried = <<>>
    /\ price_failures = <<>>
    /\ OptIdle
    /\ CallIdle
    /\ ServiceIdle

\* 'if not results': nothing is saved
SaveNothing ==
    /\ pc = "save"
    /\ results = <<>>
    /\ pc' = "nothing_saved"
    /\ UNCHANGED <<tc_files, fi, all_transactions, transactions, results,
                   broker_txns, ri, ti, error, base, applied>>
    /\ UNCHANGED priceVars
    /\ UNCHANGED <<optVars, callVars, serviceVars>>

\* every result is reclassified in place, then the rows are written
SaveBrokerData ==
    /\ pc = "save"
    /\ results # <<>>
    /\ results' = [i \in 1..Len(results) |-> Reclassified(results[i])]
    /\ saved' = Some(results')
    /\ pc' = "saved"
    /\ UNCHANGED <<tc_files, fi, all_transactions, transactions, broker_txns,
                   ri, ti, error, base, applied, unique_symbols, si, queried,
                   price_failures>>
    /\ UNCHANGED <<optVars, callVars, serviceVars>>

NextSave ==
    \/ SaveNothing
    \/ SaveBrokerData

SpecSave == InitSave /\ [][NextSave]_vars

\* the price of a position: the key 'Price' of an extracted position,
\* 'BrokerPrice' of a position of the engine
PriceOf(position) ==
    DictGet(position, "Price", DictGet(position, "BrokerPrice", 0))

\* the market value of the money market funds of a list in one currency
RECURSIVE MmfMarketValue(_, _)
MmfMarketValue(positions, currency) ==
    IF positions = <<>> THEN 0
    ELSE (IF /\ IsMmfPosition(Head(positions))
             /\ Head(positions).PriceCurrency = currency
          THEN Head(positions).Holding * PriceOf(Head(positions)) ELSE 0)
         + MmfMarketValue(Tail(positions), currency)

(* C23  MMF reclassification: every position whose description contains      *)
(* 'money market fund' (case-insensitive) is removed from its broker's       *)
(* positions and its market value holding x price is added to that broker's  *)
(* cash balance in the position's price currency, after which usd_total is   *)
(* recomputed from the cash balances; all other positions are kept,          *)
(* unchanged and in order.                                                   *)
C23_MmfReclassification ==
    pc = "saved" =>
        \A i \in 1..Len(base) :
            /\ results[i].positions =
                   SelectSeq(base[i].positions, LAMBDA p : ~IsMmfPosition(p))
            /\ \A c \in {"USD", "HKD", "CNY", "EUR"} :
                   CashGet(results[i].cash_data, c) =
                       CashGet(base[i].cash_data, c)
                           + MmfMarketValue(base[i].positions, c)
            /\ (\E j \in 1..Len(base[i].positions) :
                    IsMmfPosition(base[i].positions[j])) =>
                   results[i].usd_total =
                       RecalculatedUsdTotal(results[i].cash_data)

-----------------------------------------------------------------------------
\* a date <<yyyy, mm, dd>> as the number yyyymmdd
DayNumber(d) == d[1] * 10000 + d[2] * 100 + d[3]

\* the Trade Date lies after the base date and not after the target date
InDateWindow(d) ==
    DayNumber(BaseDate) < DayNumber(d) /\ DayNumber(d) <= DayNumber(TargetDate)

\* the transactions of all TC files, in file and row order
ParsedFromFiles == Flatten([f \in 1..Len(tc_files) |-> ParseTcExcel(tc_files[f])])

\* the number of entries of applied for transaction t
TimesApplied(t) == Cardinality({n \in Entries : applied[n].txn = t})

\* the broker of transaction t has a result
BrokerHasResult(t) ==
    \E i \in 1..Len(results) :
        BrokerKey(results[i].broker_name) = BrokerKey(transactions[t].broker)

(* C24  Trade-date window: of all transactions parsed from the TC files,     *)
(* exactly those whose Trade Date d satisfies base_date < d <= target_date   *)
(* are handed on and applied (each once, for the brokers that have a         *)
(* snapshot, once the run has applied its transactions without error),       *)
(* whatever file they stand in; if no transaction falls in the window the    *)
(* run fails with an error before any snapshot is modified.                  *)
C24_TradeDateWindow ==
    (pc # "parse" /\ tc_files # <<>>) =>
        /\ all_transactions = ParsedFromFiles
        /\ transactions =
               SelectSeq(ParsedFromFiles, LAMBDA txn : InDateWindow(txn.date))
        /\ \A n \in Entries : InDateWindow(TxnOf(n).date)
        /\ \A t \in 1..Len(transactions) : TimesApplied(t) <= 1
        /\ (pc \in {"done", "prices", "returned", "saved"}) =>
               \A t \in 1..Len(transactions) :
                   BrokerHasResult(t) => TimesApplied(t) = 1
        /\ (\A i \in 1..Len(ParsedFromFiles) :
                ~InDateWindow(ParsedFromFiles[i].date)) <=>
               (error = NoTransactions)
        /\ error = NoTransactions =>
               /\ pc \in {"error", "exit"}
               /\ results = base
               /\ applied = <<>>
               /\ saved = None

\* a run has ended without error on files that hold rows dated on the base
\* date, on the target date and after it, the later file holding the
\* earlier row; only the row of the target date was applied
C24_Witness ==
    /\ pc = "done"
    /\ Len(tc_files) = 2
    /\ \E i \in 1..Len(tc_files[1]) : tc_files[1][i].TradeDate = LateDate
    /\ \E i \in 1..Len(tc_files[2]) : tc_files[2][i].TradeDate = BaseDate
    /\ \E i \in 1..Len(tc_files[2]) : tc_files[2][i].TradeDate = TargetDate
    /\ Len(all_transactions) = 3
    /\ Len(applied) = 1
    /\ TxnOf(1).date = TargetDate

\* the run has failed because every parsed row is dated outside the window
C24_EmptyWindow ==
    /\ pc = "exit"
    /\ error = NoTransactions
    /\ Len(all_transactions) >= 2

-----------------------------------------------------------------------------
(* ExchangeRateHandler: the memory cache, the JSON cache file and the API *)
(* Rates are kept in thousandths: 1.0 is 1000.                            *)

MaxApiCalls == 2

\* cache_key = (from_currency, to_currency, date)
CacheKey(from_currency, to_currency, date) == <<from_currency, to_currency, date>>

\* key = f"{from_currency}_{to_currency}_{date}"
JsonKey(cache_key) == cache_key[1] \o "_" \o cache_key[2] \o "_" \o cache_key[3]

\* _load_rate_from_json: None without a file or without the key
LoadRateFromJson(file, cache_key) ==
    IF file = None THEN None
    ELSE IF JsonKey(cache_key) \in DOMAIN file[1]
         THEN Some(file[1][JsonKey(cache_key)])
         ELSE None

\* mutant of SaveRateToJson: the file is written with the new rate alone
SaveRateToNewJson(file, cache_key, rate) ==
    Some([k \in {JsonKey(cache_key)} |-> rate])

\* _save_rate_to_json: the existing data is loaded, the rate added, the file
\* written back
SaveRateToJson(file, cache_key, rate) ==
    LET cache_data == IF file = None THEN <<>> ELSE file[1]
    IN  Some([k \in DOMAIN cache_data \cup {JsonKey(cache_key)} |->
                 IF k = JsonKey(cache_key) THEN rate ELSE cache_data[k]])

\* self._rate_cache[cache_key] = rate
RateCacheSet(cache, cache_key, rate) ==
    [k \in DOMAIN cache \cup {cache_key} |->
        IF k = cache_key THEN rate ELSE cache[k]]

\* what the API answers: data['success'] and data['result'], or an HTTP error
ApiAnswer(success, result) == [http_error |-> FALSE, success |-> success, result |-> result]
ApiHttpError == [http_error |-> TRUE]
ApiAnswers ==
    {ApiAnswer(TRUE, Some(139)), ApiAnswer(TRUE, Some(140)),
     ApiAnswer(TRUE, Some(0)), ApiAnswer(TRUE, None),
     ApiAnswer(FALSE, None), ApiHttpError}

\* the answer gives a rate: success with a result that is not None and > 0
ValidAnswer(answer) ==
    /\ ~answer.http_error
    /\ answer.success
    /\ answer.result # None
    /\ answer.result[1] > 0

RateKeys ==
    {CacheKey(c, "USD", "2025-02-28") : c \in {"HKD", "CNY"}}
SavedRates == {139, 140}

\* a new handler whose cache file does not exist
InitRates ==
    /\ pc = "rates"
    /\ rate_cache = <<>>
    /\ cache_file = None
    /\ api_calls = <<>>
    /\ hk_code_cache = <<>>
    /\ chain_queries = <<>>
    /\ CallIdle
    /\ OnlyCall

\* what every call on the handler leaves alone
RatesFrame ==
    /\ UNCHANGED <<tried, results, unique_symbols, si, queried>>
    /\ UNCHANGED <<engineVars, optVars, hk_code_cache, chain_queries>>

\* get_rate_lazy with from_currency == to_currency
GetRateSameCurrency(currency) ==
    /\ pc' = "same_currency"
    /\ arg' = CacheKey(currency, currency, "2025-02-28")
    /\ ret' = Returns(1000)
    /\ UNCHANGED <<rate_cache, cache_file, api_calls>>
    /\ RatesFrame

\* get_single_rate: the key is in the memory cache
GetRateFromMemory(cache_key) ==
    /\ cache_key \in DOMAIN rate_cache
    /\ pc' = "memory_hit"
    /\ arg' = cache_key
    /\ ret' = Returns(rate_cache[cache_key])
    /\ UNCHANGED <<rate_cache, cache_file, api_calls>>
    /\ RatesFrame

\* get_single_rate: the key is in the JSON cache only
GetRateFromJson(cache_key) ==
    /\ cache_key \notin DOMAIN rate_cache
    /\ LoadRateFromJson(cache_file, cache_key) # None
    /\ pc' = "json_hit"
    /\ arg' = cache_key
    /\ ret' = Returns(LoadRateFromJson(cache_file, cache_key)[1])
    /\ rate_cache' = RateCacheSet(rate_cache, cache_key,
                                  LoadRateFromJson(cache_file, cache_key)[1])
    /\ UNCHANGED <<cache_file, api_calls>>
    /\ RatesFrame

\* get_single_rate: both caches miss and the API gives a rate
GetRateFetched(cache_key, answer) ==
    /\ cache_key \notin DOMAIN rate_cache
    /\ LoadRateFromJson(cache_file, cache_key) = None
    /\ Len(api_calls) < MaxApiCalls
    /\ ValidAnswer(answer)
    /\ pc' = "fetched"
    /\ arg' = cache_key
    /\ ret' = Returns(answer.result[1])
    /\ api_calls' = Append(api_calls, cache_key)
    /\ rate_cache' = RateCacheSet(rate_cache, cache_key, answer.result[1])
    /\ cache_file' = SaveRateToJson(cache_file, cache_key, answer.result[1])
    /\ RatesFrame

\* get_single_rate: both caches miss and the fetch fails; the exception is
\* raised again
GetRateFetchFailed(cache_key, answer) ==
    /\ cache_key \notin DOMAIN rate_cache
    /\ LoadRateFromJson(cache_file, cache_key) = None
    /\ Len(api_calls) < MaxApiCalls
    /\ ~ValidAnswer(answer)
    /\ pc' = "fetch_failed"
    /\ arg' = cache_key
    /\ ret' = Raises
    /\ api_calls' = Append(api_calls, cache_key)
    /\ UNCHANGED <<rate_cache, cache_file>>
    /\ RatesFrame

\* _save_rate_to_json called on the handler
SaveRate(cache_key, rate) ==
    /\ pc' = "rate_saved"
    /\ arg' = <<cache_key, rate>>
    /\ ret' = None
    /\ cache_file' = SaveRateToJson(cache_file, cache_key, rate)
    /\ UNCHANGED <<rate_cache, api_calls>>
    /\ RatesFrame

\* _load_rate_from_json called on the handler
LoadRate(cache_key) ==
    /\ pc' = "rate_loaded"
    /\ arg' = cache_key
    /\ ret' = Returns(LoadRateFromJson(cache_file, cache_key))
    /\ UNCHANGED <<rate_cache, cache_file, api_calls>>
    /\ RatesFrame

\* clear_cache(memory_only)
ClearCache(memory_only) ==
    /\ pc' = "cleared"
    /\ arg' = memory_only
    /\ ret' = None
    /\ rate_cache' = <<>>
    /\ cache_file' = IF memory_only THEN cache_file ELSE None
    /\ UNCHANGED api_calls
    /\ RatesFrame

NextRates ==
    \/ \E currency \in {"USD", "HKD"} : GetRateSameCurrency(currency)
    \/ \E cache_key \in RateKeys : GetRateFromMemory(cache_key)
    \/ \E cache_key \in RateKeys : GetRateFromJson(cache_key)
    \/ \E cache_key \in RateKeys, answer \in ApiAnswers :
           GetRateFetched(cache_key, answer)
    \/ \E cache_key \in RateKeys, answer \in ApiAnswers :
           GetRateFetchFailed(cache_key, answer)
    \/ \E cache_key \in RateKeys, rate \in SavedRates : SaveRate(cache_key, rate)
    \/ \E cache_key \in RateKeys : LoadRate(cache_key)
    \/ \E memory_only \in BOOLEAN : ClearCache(memory_only)

SpecRates == InitRates /\ [][NextRates]_vars

\* the rate the JSON cache holds for a key, None if it holds none
FileRate(file, cache_key) ==
    IF file # None /\ JsonKey(cache_key) \in DOMAIN file[1]
    THEN Some(file[1][JsonKey(cache_key)]) ELSE None

\* the step is a call of get_single_rate for a key
IsLookup == pc' \in {"memory_hit", "json_hit", "fetched", "fetch_failed"}

(* C25  Exchange-rate cache, step by step: a save puts the rate under its    *)
(* key and keeps every other key, a load returns what the file holds for    *)
(* the key (None for a key never saved) and changes nothing, and no step    *)
(* but a save of the key or a full clear changes what the file holds for a  *)
(* key; get_single_rate answers from the memory cache, else from the JSON   *)
(* cache, else from the API, which is called only when both caches miss; a   *)
(* successful fetch leaves the rate in both caches, a failed fetch raises    *)
(* and leaves both unchanged; clear_cache(memory_only=True) empties the      *)
(* memory cache only, clear_cache(memory_only=False) both; a same-currency   *)
(* lookup returns 1.0 without touching cache or API.                         *)
C25_RateCache ==
    [][/\ \A k \in RateKeys :
              \/ FileRate(cache_file', k) = FileRate(cache_file, k)
              \/ pc' = "rate_saved" /\ arg'[1] = k
              \/ pc' = "fetched" /\ arg' = k /\ FileRate(cache_file, k) = None
              \/ pc' = "cleared" /\ arg' = FALSE
       /\ pc' = "rate_saved" => FileRate(cache_file', arg'[1]) = Some(arg'[2])
       /\ pc' = "rate_loaded" =>
              /\ ret' = Returns(FileRate(cache_file, arg'))
              /\ UNCHANGED <<rate_cache, cache_file, api_calls>>
       /\ IsLookup =>
              /\ arg' \in DOMAIN rate_cache =>
                     pc' = "memory_hit" /\ ret' = Returns(rate_cache[arg'])
              /\ (arg' \notin DOMAIN rate_cache
                      /\ FileRate(cache_file, arg') # None) =>
                     /\ pc' = "json_hit"
                     /\ ret' = Returns(FileRate(cache_file, arg')[1])
              /\ api_calls' # api_calls =>
                     /\ arg' \notin DOMAIN rate_cache
                     /\ FileRate(cache_file, arg') = None
                     /\ api_calls' = Append(api_calls, arg')
       /\ pc' = "fetched" =>
              /\ ~ret'.raises /\ ret'.value > 0
              /\ arg' \in DOMAIN rate_cache' /\ rate_cache'[arg'] = ret'.value
              /\ FileRate(cache_file', arg') = Some(ret'.value)
       /\ pc' = "fetch_failed" =>
              ret' = Raises /\ UNCHANGED <<rate_cache, cache_file>>
       /\ pc' = "cleared" =>
              /\ rate_cache' = <<>>
              /\ arg' = TRUE => cache_file' = cache_file
              /\ arg' = FALSE => cache_file' = None
       /\ pc' = "same_currency" =>
              /\ ret' = Returns(1000)
              /\ UNCHANGED <<rate_cache, cache_file, api_calls>>]_vars

\* after a fetch for HKD and a memory-only clear, the lookup for HKD was
\* answered from the JSON cache, which also holds a saved CNY rate; the API
\* was called once
C25_Witness ==
    /\ pc = "json_hit"
    /\ arg = CacheKey("HKD", "USD", "2025-02-28")
    /\ ret = Returns(139)
    /\ api_calls = <<CacheKey("HKD", "USD", "2025-02-28")>>
    /\ rate_cache = [k \in {arg} |-> 139]
    /\ FileRate(cache_file, CacheKey("CNY", "USD", "2025-02-28")) = Some(140)

-----------------------------------------------------------------------------
\* the engine's parsers and the parser registry both read the code as an
\* option (OCC, HKATS or US long form)
BothSidesParse(code) ==
    ParseOptionWithExistingLogic(code) # None /\ StandardOption(code)

\* a position dict that carries the code as StockCode and has no description
HeldAs(code) == PositionDict(code, None, 1, 1, "USD", 1)

\* _find_position finds the one position of a list for the transaction code
FoundFor(stock_code, position_code) ==
    FindPosition(<<HeldAs(position_code)>>, stock_code) # 0

\* the strikes of two codes are exactly 0.01 apart, where the outcome of
\* both comparisons depends on the rounding of the floats
StrikesOneCentApart(a, b) ==
    Abs(ParseOption(a).strike[1] - ParseOption(b).strike[1]) = 10

(* C26  Find-position uses the equivalence predicate: when no position has   *)
(* exactly the transaction's stock code, _find_position returns a position   *)
(* iff the position denotes the same contract as the transaction code under  *)
(* Position.matches_option's rule, i.e. _options_match decides every pair of *)
(* option codes in the formats both sides parse the same way as              *)
(* matches_option (pairs with strikes exactly 0.01 apart are left aside);    *)
(* and an exact stock-code match is returned in preference to a fuzzy one.   *)
C26_FindPositionUsesMatchesOption ==
    pc = "matched" =>
        LET a == arg[1].stock_code
            b == arg[2].stock_code
        IN  /\ (a # b /\ BothSidesParse(a) /\ BothSidesParse(b)
                    /\ ~StrikesOneCentApart(a, b)) =>
                   (FoundFor(a, b) <=> ret[1])
            /\ FindPosition(<<HeldAs(b), HeldAs(a)>>, a) =
                   (IF a = b THEN 1 ELSE 2)

-----------------------------------------------------------------------------
\* no position of any snapshot of the list has a holding of exactly zero
NoZeroHolding(rs) ==
    \A r \in 1..Len(rs) :
        \A k \in 1..Len(rs[r].positions) : rs[r].positions[k].Holding # 0

(* C27  Closed positions are not retained: starting from a base snapshot    *)
(* without zero-holding positions, after any sequence of transactions       *)
(* applied without error no broker's positions list contains an entry whose *)
(* holding is exactly zero, also when a short position is covered by a      *)
(* BUY/BUYCOVER or a long one is zeroed by a negative-quantity SELL.        *)
C27_ClosedNotRetained ==
    (error = "" /\ NoZeroHolding(base)) => NoZeroHolding(results)

-----------------------------------------------------------------------------
(* standardize_option_format of src/src/trade_confirmation_processor.py on  *)
(* the characters of the stock code, and _parse_occ_format on its result    *)

SuffixWords ==
    {<<"e", "q", "u", "i", "t", "y">>, <<"o", "p", "t", "i", "o", "n">>}

\* re.sub(r'\s+(Equity|Option)$', '', stock_code, flags=re.IGNORECASE).strip()
WithoutSuffix(stock_code) ==
    LET n == Len(stock_code)
    IN  Strip(IF /\ n >= 7
                 /\ stock_code[n - 6] = " "
                 /\ Lower(SubSeq(stock_code, n - 5, n)) \in SuffixWords
              THEN RStrip(SubSeq(stock_code, 1, n - 6))
              ELSE stock_code)

\* the parts of a text that \s+ separates
RECURSIVE Words(_)
Words(s) ==
    IF s = <<>> THEN <<>>
    ELSE IF Head(s) = " " THEN Words(Tail(s))
    ELSE LET n == CHOOSE i \in 1..Len(s) :
                      /\ \A j \in 1..i : s[j] # " "
                      /\ (i = Len(s) \/ s[i + 1] = " ")
         IN  <<SubSeq(s, 1, n)>> \o Words(SubSeq(s, n + 1, Len(s)))

\* [A-Z0-9]+
AllAlnum(s) ==
    s # <<>> /\ \A i \in 1..Len(s) : IsUpperLetter(s[i]) \/ IsDigit(s[i])

\* check 1: ^[A-Z0-9]+\d{6}[CP]\d{5}$
AlreadyOcc(stock_code) ==
    LET n == Len(stock_code) - 12
    IN  /\ n >= 1
        /\ AllAlnum(SubSeq(stock_code, 1, n))
        /\ AllDigits(SubSeq(stock_code, n + 1, n + 6))
        /\ stock_code[n + 7] \in {"C", "P"}
        /\ AllDigits(SubSeq(stock_code, n + 8, n + 12))

\* \d{2}/\d{2}/\d{2}
IsTcDate(w) ==
    /\ Len(w) = 8
    /\ \A i \in {1, 2, 4, 5, 7, 8} : IsDigit(w[i])
    /\ w[3] = "/"
    /\ w[6] = "/"

\* ([A-Z0-9]+)\s+([A-Z0-9]{2})\s+(\d{2})/(\d{2})/(\d{2})\s+([CP])(\d+)$
TcFits(w) ==
    /\ Len(w) = 4
    /\ AllAlnum(w[1])
    /\ Len(w[2]) = 2
    /\ AllAlnum(w[2])
    /\ IsTcDate(w[3])
    /\ Len(w[4]) >= 2
    /\ w[4][1] \in {"C", "P"}
    /\ AllDigits(Tail(w[4]))

\* check 2: the words ticker, market, date and right of the match, after an
\* optional prefix of two letters; None without a match
TcGroups(stock_code) ==
    LET w == Words(stock_code)
    IN  IF TcFits(w) THEN Some(w)
        ELSE IF /\ Len(w) = 5
                /\ Len(w[1]) = 2
                /\ \A i \in 1..2 : IsUpperLetter(w[1][i])
                /\ TcFits(Tail(w))
             THEN Some(Tail(w))
             ELSE None

\* check 3: re.search(r'\d{2}/\d{2}/\d{2}', stock_code)
HasDatePattern(stock_code) ==
    \E i \in 1..(Len(stock_code) - 7) : IsTcDate(SubSeq(stock_code, i, i + 7))

\* ticker.isdigit() and market_upper in ('HK', 'C1')
NeedsResolve(w) ==
    AllDigits(w[1]) /\ Upper(w[2]) \in {<<"H", "K">>, <<"C", "1">>}

\* f"{ticker}{yy}{mm}{dd}{cp}{int(strike)*1000:05d}"
OccText(ticker, w) ==
    ticker \o SubSeq(w[3], 7, 8) \o SubSeq(w[3], 1, 2) \o SubSeq(w[3], 4, 5)
        \o <<w[4][1]>> \o ZeroPadded(ToInt(Tail(w[4])) * 1000, 5)

\* the branch standardize_option_format takes
StandardizeBranch(stock_code) ==
    LET code == WithoutSuffix(stock_code)
    IN  IF stock_code = <<>> THEN "empty"
        ELSE IF AlreadyOcc(code) THEN "occ"
        ELSE IF TcGroups(code) # None
             THEN IF NeedsResolve(TcGroups(code)[1]) THEN "resolve" ELSE "tc"
        ELSE IF ~HasDatePattern(code) THEN "stock"
        ELSE "unrecognized"

\* _parse_occ_format on the characters: ^([A-Z]+)(\d{6})([CP])(\d{5})$
ParseOccText(code) ==
    LET n == Len(code) - 12
        year == 2000 + ToInt(SubSeq(code, n + 1, n + 2))
        month == ToInt(SubSeq(code, n + 3, n + 4))
        day == ToInt(SubSeq(code, n + 5, n + 6))
    IN  IF /\ n >= 1
           /\ \A i \in 1..n : IsUpperLetter(code[i])
           /\ AllDigits(SubSeq(code, n + 1, n + 6))
           /\ code[n + 7] \in {"C", "P"}
           /\ AllDigits(SubSeq(code, n + 8, n + 12))
           /\ ValidDate(year, month, day)
        THEN Some(Parsed(Some(SubSeq(code, 1, n)), None, <<year, month, day>>,
                         ToInt(SubSeq(code, n + 8, n + 12)),
                         CallOrPut(code[n + 7])))
        ELSE None

\* words joined by one space
RECURSIVE Spaced(_)
Spaced(w) ==
    IF Len(w) = 1 THEN w[1] ELSE w[1] \o <<" ">> \o Spaced(Tail(w))

TcTickers ==
    {<<"S", "B", "E", "T">>, <<"C", "L", "I">>, <<"A">>,
     <<"G", "O", "O", "G", "L">>, <<"2", "6", "2", "8">>}
TcMarkets == {<<"U", "S">>, <<"H", "K">>}
TcDate == <<"0", "1", "/", "1", "6", "/", "2", "6">>
TcStrikes ==
    {<<"1">>, <<"4", "1">>, <<"9", "9">>, <<"1", "0", "0">>,
     <<"1", "8", "0">>, <<"1", "0", "0", "0">>}
TcRights == {cp \o k : cp \in {<<"C">>, <<"P">>}, k \in TcStrikes}

\* the texts of the StockCode column
TcTexts ==
    {Spaced(<<tk, m, TcDate, r>>) :
        tk \in TcTickers, m \in TcMarkets, r \in TcRights}
        \cup {<<>>,
              <<"A", "A", "P", "L">>,
              <<"1", "2", "6", "3", " ", "H", "K">>,
              <<"A", "A", "P", "L", " ", "U", "S", " ", "E", "q", "u", "i", "t", "y">>,
              <<"S", "B", "E", "T", "2", "6", "0", "1", "1", "6", "P",
                "4", "1", "0", "0", "0">>,
              <<"S", "B", "E", "T", "2", "6", "0", "1", "1", "6", "P",
                "1", "0", "0", "0", "0", "0">>,
              Spaced(<<<<"G", "S">>, <<"3", "6", "9", "0">>, <<"H", "K">>,
                       <<"0", "5", "/", "2", "8", "/", "2", "7">>,
                       <<"C", "1", "8", "0">>>>),
              Spaced(<<<<"S", "B", "E", "T">>, <<"U", "S">>, TcDate,
                       <<"P", "4", "1">>, <<"O", "P", "T", "I", "O", "N">>>>),
              Spaced(<<<<"S", "B", "E", "T">>, <<"U", "S">>, TcDate,
                       <<"P", "4", "1", ".", "5">>>>),
              Spaced(<<<<"S", "B", "E", "T">>, <<"U", "S">>,
                       <<"1", "/", "1", "6", "/", "2", "6">>,
                       <<"P", "4", "1">>>>)}

\* a new processor and one stock code
InitStandardize ==
    /\ pc = "standardize"
    /\ arg \in TcTexts
    /\ ret = None
    /\ tried = <<>>
    /\ OnlyCall
    /\ ServiceIdle

Standardizing(branch) == pc = "standardize" /\ StandardizeBranch(arg) = branch

\* lines 173-174: an empty code is returned
StandardizeEmpty ==
    /\ Standardizing("empty")
    /\ pc' = "kept"
    /\ ret' = Returns(arg)
    /\ UNCHANGED <<arg, hk_code_cache, chain_queries>>
    /\ ResolverFrame

\* lines 177-181: the code is in OCC form already
StandardizeAlreadyOcc ==
    /\ Standardizing("occ")
    /\ pc' = "kept"
    /\ ret' = Returns(WithoutSuffix(arg))
    /\ UNCHANGED <<arg, hk_code_cache, chain_queries>>
    /\ ResolverFrame

\* lines 186-201: the TC long form is rewritten
StandardizeConverted ==
    /\ Standardizing("tc")
    /\ pc' = "converted"
    /\ ret' = LET w == TcGroups(WithoutSuffix(arg))[1]
              IN  Returns(OccText(w[1], w))
    /\ UNCHANGED <<arg, hk_code_cache, chain_queries>>
    /\ ResolverFrame

\* lines 196-201: the option chain gives the HKATS code of a numeric ticker
StandardizeResolved(option_code) ==
    /\ Standardizing("resolve")
    /\ UsableOptionCode(option_code)
    /\ LET w == TcGroups(WithoutSuffix(arg))[1]
       IN  /\ ret' = Returns(OccText(HkatsOf(option_code), w))
           /\ chain_queries' = Append(chain_queries, NormalizedKey(w[1]))
           /\ hk_code_cache' =
                  [k \in {NormalizedKey(w[1])} |-> HkatsOf(option_code)]
    /\ pc' = "resolved"
    /\ UNCHANGED arg
    /\ ResolverFrame

\* lines 196-201: no option chain, resolve returns the digits
StandardizeDegraded ==
    /\ Standardizing("resolve")
    /\ LET w == TcGroups(WithoutSuffix(arg))[1]
       IN  /\ ret' = Returns(OccText(DegradedCode(w[1]), w))
           /\ chain_queries' = Append(chain_queries, NormalizedKey(w[1]))
    /\ pc' = "degraded"
    /\ UNCHANGED <<arg, hk_code_cache>>
    /\ ResolverFrame

\* line 197: resolve raises, without a connection or on an unusable chain
StandardizeResolveRaises ==
    /\ Standardizing("resolve")
    /\ LET w == TcGroups(WithoutSuffix(arg))[1]
       IN  chain_queries' \in
               {chain_queries, Append(chain_queries, NormalizedKey(w[1]))}
    /\ pc' = "resolve_raised"
    /\ ret' = Raises
    /\ UNCHANGED <<arg, hk_code_cache>>
    /\ ResolverFrame

\* lines 205-207: no MM/DD/YY, the text of a stock is returned
StandardizeStock ==
    /\ Standardizing("stock")
    /\ pc' = "kept"
    /\ ret' = Returns(WithoutSuffix(arg))
    /\ UNCHANGED <<arg, hk_code_cache, chain_queries>>
    /\ ResolverFrame

\* lines 211-218: a date without a known format, ValueError
StandardizeUnrecognized ==
    /\ Standardizing("unrecognized")
    /\ pc' = "unrecognized"
    /\ ret' = Raises
    /\ UNCHANGED <<arg, hk_code_cache, chain_queries>>
    /\ ResolverFrame

NextStandardize ==
    \/ StandardizeEmpty
    \/ StandardizeAlreadyOcc
    \/ StandardizeConverted
    \/ \E option_code \in OptionCodes : StandardizeResolved(option_code)
    \/ StandardizeDegraded
    \/ StandardizeResolveRaises
    \/ StandardizeStock
    \/ StandardizeUnrecognized

SpecStandardize == InitStandardize /\ [][NextStandardize]_vars

\* the words of the TC long form the call was made with
TcWords == TcGroups(WithoutSuffix(arg))[1]

\* the expiry date of the TC long form, MM/DD/YY
TcExpiry ==
    <<2000 + ToInt(SubSeq(TcWords[3], 7, 8)), ToInt(SubSeq(TcWords[3], 1, 2)),
      ToInt(SubSeq(TcWords[3], 4, 5))>>

\* the strike of the TC long form, in thousandths
TcStrike == ToInt(Tail(TcWords[4])) * 1000

\* the ticker of the TC long form is a word of letters
LetterTicker == \A i \in 1..Len(TcWords[1]) : IsUpperLetter(TcWords[1][i])

(* C28  TC option standardisation round-trips: for every TC long-form       *)
(* option code 'TICKER MARKET MM/DD/YY (C|P)STRIKE' with a whole-number     *)
(* strike, standardize_option_format yields a code that _parse_occ_format   *)
(* and USOCCParser read back to the same ticker, expiry date, option type   *)
(* and strike, for every strike value and not only those whose strike*1000  *)
(* fits in 5 digits; and standardising the result again returns it          *)
(* unchanged.                                                               *)
C28_StandardizeRoundTrips ==
    (pc = "converted" /\ LetterTicker) =>
        /\ ParseOccText(ret.value) =
               Some(Parsed(Some(TcWords[1]), None, TcExpiry, TcStrike,
                           CallOrPut(TcWords[4][1])))
        /\ UsOccCanParse(ret.value)
        /\ ~UsOccParse(ret.value).raises
        /\ UsOccParse(ret.value).value.underlying = Some(TcWords[1])
        /\ UsOccParse(ret.value).value.expiry_date = Some(TcExpiry)
        /\ UsOccParse(ret.value).value.strike = Some(TcStrike)
        /\ UsOccParse(ret.value).value.option_type =
               Some(CallOrPut(TcWords[4][1]))
        /\ StandardizeBranch(ret.value) \in {"occ", "stock"}
        /\ WithoutSuffix(ret.value) = ret.value

-----------------------------------------------------------------------------
\* a list without its element k
WithoutIndex(s, k) == SubSeq(s, 1, k - 1) \o SubSeq(s, k + 1, Len(s))

\* entry n changed at most the holding of the matched position, removed that
\* position, or appended one position for the transaction's stock code
PositionsFrame(n) ==
    LET before == applied[n].before.positions
        after == applied[n].after.positions
        k == MatchOf(n)
    IN  \/ after = before
        \/ /\ k # 0
           /\ Len(after) = Len(before)
           /\ after = [before EXCEPT ![k].Holding = after[k].Holding]
        \/ /\ k # 0
           /\ after = WithoutIndex(before, k)
        \/ /\ k = 0
           /\ Len(after) = Len(before) + 1
           /\ SubSeq(after, 1, Len(before)) = before
           /\ after[Len(after)].StockCode = TxnOf(n).stock_code

\* entry n left the names and every balance but USD alone, and moved
\* usd_total with cash_data['USD']
CashFrame(n) ==
    LET before == applied[n].before
        after == applied[n].after
    IN  /\ after.broker_name = before.broker_name
        /\ after.account_id = before.account_id
        /\ DOMAIN after.cash_data \subseteq DOMAIN before.cash_data \cup {"USD"}
        /\ \A c \in DOMAIN before.cash_data \ {"USD"} :
               c \in DOMAIN after.cash_data
                   /\ after.cash_data[c] = before.cash_data[c]
        /\ after.usd_total - CashGet(after.cash_data, "USD") =
               before.usd_total - CashGet(before.cash_data, "USD")

\* the entries of result r, oldest first
EntriesOf(r) == SelectSeq([n \in Entries |-> n], LAMBDA n : applied[n].result = r)

\* result r went from its base state to its present state through its own
\* entries and nothing else
OwnEntriesOnly(r) ==
    LET es == EntriesOf(r)
    IN  IF es = <<>> THEN results[r] = base[r]
        ELSE /\ applied[es[1]].before = base[r]
             /\ \A i \in 1..(Len(es) - 1) :
                    applied[es[i + 1]].before = applied[es[i]].after
             /\ applied[es[Len(es)]].after = results[r]

\* the transactions of the broker of result r, in list order
OwnTransactions(r) ==
    SelectSeq(transactions,
              LAMBDA txn : BrokerKey(txn.broker) = BrokerKey(base[r].broker_name))

(* C29  Frame of a transaction: applying a transaction of broker A changes  *)
(* only broker A's snapshot, and within it only the holding of the one      *)
(* matched or newly created position (or its removal), cash_data['USD'] and *)
(* usd_total; every other position of A, A's non-USD balances and every     *)
(* other snapshot are unchanged, so each broker's final state depends only  *)
(* on its own transactions and usd_total - cash_data['USD'] stays constant. *)
C29_TransactionFrame ==
    /\ Len(results) = Len(base)
    /\ \A n \in Entries :
           /\ BrokerKey(TxnOf(n).broker) =
                  BrokerKey(applied[n].before.broker_name)
           /\ PositionsFrame(n)
           /\ CashFrame(n)
    /\ \A r \in 1..Len(results) :
           /\ OwnEntriesOnly(r)
           /\ results[r].usd_total - CashGet(results[r].cash_data, "USD") =
                  base[r].usd_total - CashGet(base[r].cash_data, "USD")
           /\ (pc = "done" /\ error = "") =>
                  results[r] =
                      ApplyBrokerTransactions(base[r], OwnTransactions(r)).result

\* two brokers each had one transaction of their own applied: TF bought a
\* new position, IB sold one out, and both kept their HKD balance
C29_Witness ==
    /\ pc = "done"
    /\ error = ""
    /\ Len(results) = 2
    /\ Len(applied) = 2
    /\ BrokerKey(results[1].broker_name) # BrokerKey(results[2].broker_name)
    /\ Len(results[1].positions) = Len(base[1].positions) + 1
    /\ Len(results[2].positions) = Len(base[2].positions) - 1
    /\ results[1].cash_data["HKD"] = 16
    /\ results[1].cash_data["USD"] < 50
    /\ results[2].cash_data["USD"] > 50

-----------------------------------------------------------------------------
\* the position was parsed as an option of a standard format
ParsedStandard(position) ==
    position.option_format \notin {None, Some("UNPARSEABLE"), Some("OTC")}

\* two standard options of one series whose strikes are at least 0.01 and
\* less than 0.02 apart
StrikesChained(a, c) ==
    /\ ParsedStandard(a)
    /\ ParsedStandard(c)
    /\ a.underlying = c.underlying
    /\ a.expiry_date = c.expiry_date
    /\ a.option_type = c.option_type
    /\ Abs(a.strike[1] - c.strike[1]) >= 10
    /\ Abs(a.strike[1] - c.strike[1]) < 20

(* C30 as stated  matches_option is an equivalence relation on positions:   *)
(* besides being reflexive and symmetric it is transitive: for all          *)
(* positions a, b, c, if a matches b and b matches c then a matches c.      *)
C30_AsStated ==
    pc = "matched" =>
        /\ arg[1].stock_code = arg[2].stock_code => ret[1]
        /\ ret[1] = MatchesOption(arg[2], arg[1])
        /\ ret[1] =>
               \A c \in MatchCodes :
                   MatchesOption(arg[2], PositionOf(c)) =>
                       MatchesOption(arg[1], PositionOf(c))

(* C30 amended  matches_option is reflexive and symmetric, and transitive   *)
(* up to the strike tolerance: if a matches b and b matches c, then either  *)
(* a matches c, or a and c are standard options with equal underlying,      *)
(* expiry date and option type whose strikes are at least 0.01 and less     *)
(* than 0.02 apart.                                                         *)
C30_NearlyTransitive ==
    pc = "matched" =>
        /\ arg[1].stock_code = arg[2].stock_code => ret[1]
        /\ ret[1] = MatchesOption(arg[2], arg[1])
        /\ ret[1] =>
               \A c \in MatchCodes :
                   MatchesOption(arg[2], PositionOf(c)) =>
                       \/ MatchesOption(arg[1], PositionOf(c))
                       \/ StrikesChained(arg[1], PositionOf(c))

\* strike 20.00 matched strike 20.005, which matches strike 20.01, and
\* 20.00 does not match 20.01
C30_Witness ==
    /\ pc = "matched"
    /\ ret = Some(TRUE)
    /\ arg[1].stock_code = CliHkats
    /\ arg[2].strike = Some(20005)
    /\ \E c \in MatchCodes :
           /\ PositionOf(c).strike = Some(20010)
           /\ MatchesOption(arg[2], PositionOf(c))
           /\ ~MatchesOption(arg[1], PositionOf(c))
           /\ StrikesChained(arg[1], PositionOf(c))

=============================================================================
